---- MODULE Spec2Model ----
(***************************************************************************)
(* Session store of the study tracker (src/data_manager.py, DataManager).  *)
(*                                                                         *)
(* Python strings are sequences of one-character strings.  The data file   *)
(* holds the sequence of chunks json.dump writes (punctuation, string and  *)
(* number literals); json.load parses that sequence back.  The CSV file    *)
(* holds characters, as csv.writer produces them.                          *)
(***************************************************************************)
EXTENDS Integers, Sequences, FiniteSets, TLC

\* ---------------------------------------------------------------- bounds
MaxLog == 2          \* longest log the model builds
MaxNow == 1          \* last clock tick the model reaches

\* ------------------------------------------------------- clock and text
TicksPerDay == 2     \* clock ticks per calendar day (2: 00:00:00 and 12:00:00)
HoursPerTick == 24 \div TicksPerDay

DigitChars == <<"0", "1", "2", "3", "4", "5", "6", "7", "8", "9">>

Digit(d) == DigitChars[d + 1]

TwoDigits(n) == <<Digit((n \div 10) % 10), Digit(n % 10)>>

\* str(n) of a non-negative int
RECURSIVE Str(_)
Str(n) == IF n < 10 THEN <<Digit(n)>> ELSE Str(n \div 10) \o <<Digit(n % 10)>>

\* datetime.now().strftime("%Y-%m-%d %H:%M:%S"); tick 0 is 2024-01-01 00:00:00
Strftime(t) ==
    <<"2", "0", "2", "4", "-", "0", "1", "-">>
        \o TwoDigits((t \div TicksPerDay) + 1)
        \o <<" ">>
        \o TwoDigits((t % TicksPerDay) * HoursPerTick)
        \o <<":", "0", "0", ":", "0", "0">>

\* ---------------------------------------------------------- the records
FieldOrder == <<"timestamp", "subject", "duration", "productivity", "notes">>

FieldNames == {FieldOrder[i] : i \in 1..Len(FieldOrder)}

IntFields == {"duration", "productivity"}

Chars(k) ==
    CASE k = "timestamp"    -> <<"t", "i", "m", "e", "s", "t", "a", "m", "p">>
      [] k = "subject"      -> <<"s", "u", "b", "j", "e", "c", "t">>
      [] k = "duration"     -> <<"d", "u", "r", "a", "t", "i", "o", "n">>
      [] k = "productivity" -> <<"p", "r", "o", "d", "u", "c", "t", "i", "v", "i", "t", "y">>
      [] k = "notes"        -> <<"n", "o", "t", "e", "s">>
      [] OTHER              -> <<"?">>

Math == <<"M", "a", "t", "h">>
Physics == <<"P", "h", "y", "s", "i", "c", "s">>
NoNotes == <<>>
QuotedNotes == <<"a", ",", "\"", "\n", "b">>   \* a comma, a quote and a line break

\* (subject, duration, productivity, notes) as the form hands them over
Inputs == { <<Math, 1, 1, NoNotes>>,
            <<Physics, 1440, 5, QuotedNotes>> }

\* the dict add_session builds
Session(ts, in) ==
    [timestamp |-> ts, subject |-> in[1], duration |-> in[2],
     productivity |-> in[3], notes |-> in[4]]

RECURSIVE SeqsUpTo(_, _)
SeqsUpTo(S, n) ==
    IF n = 0 THEN {<<>>}
    ELSE LET shorter == SeqsUpTo(S, n - 1)
         IN shorter \cup {Append(s, x) : s \in shorter, x \in S}

\* ------------------------------------------------------------ json.dump
Tok(t) == [t |-> t, s |-> <<>>, n |-> 0]
StrTok(s) == [t |-> "str", s |-> s, n |-> 0]
NumTok(n) == [t |-> "num", s |-> <<>>, n |-> n]

EncodeValue(k, v) == IF k \in IntFields THEN NumTok(v) ELSE StrTok(v)

\* the keys of a dict in insertion order
RECURSIVE KeysFrom(_, _)
KeysFrom(d, i) ==
    IF i > Len(FieldOrder) THEN <<>>
    ELSE (IF FieldOrder[i] \in DOMAIN d THEN <<FieldOrder[i]>> ELSE <<>>)
             \o KeysFrom(d, i + 1)

RECURSIVE DumpMembers(_, _, _)
DumpMembers(d, keys, i) ==
    IF i > Len(keys) THEN <<>>
    ELSE (IF i > 1 THEN <<Tok(",")>> ELSE <<>>)
             \o <<StrTok(Chars(keys[i])), Tok(":"), EncodeValue(keys[i], d[keys[i]])>>
             \o DumpMembers(d, keys, i + 1)

DumpObject(d) == <<Tok("{")>> \o DumpMembers(d, KeysFrom(d, 1), 1) \o <<Tok("}")>>

RECURSIVE DumpItems(_, _)
DumpItems(data, i) ==
    IF i > Len(data) THEN <<>>
    ELSE (IF i > 1 THEN <<Tok(",")>> ELSE <<>>)
             \o DumpObject(data[i]) \o DumpItems(data, i + 1)

RECURSIVE Reversed(_)
Reversed(q) == IF q = <<>> THEN <<>> ELSE Append(Reversed(Tail(q)), Head(q))

\* json.dump(data[::-1], f, indent=4): the newest record written first
JsonDumpNewestFirst(data) == <<Tok("[")>> \o DumpItems(Reversed(data), 1) \o <<Tok("]")>>

\* the chunks json.dump(data, f, indent=4) writes, in order
JsonDump(data) == <<Tok("[")>> \o DumpItems(data, 1) \o <<Tok("]")>>

\* ------------------------------------------------------------ json.load
KeyOf(chars) ==
    IF \E k \in FieldNames : Chars(k) = chars
    THEN CHOOSE k \in FieldNames : Chars(k) = chars
    ELSE "?"

DecodeValue(tok) == IF tok.t = "num" THEN tok.n ELSE tok.s

NoParse == [ok |-> FALSE, val |-> <<>>, next |-> 0]

\* key ":" value ("," key ":" value)* "}"
RECURSIVE ParseMembers(_, _, _)
ParseMembers(toks, i, acc) ==
    IF i + 3 > Len(toks) THEN NoParse
    ELSE IF ~(toks[i].t = "str" /\ toks[i + 1].t = ":"
                /\ toks[i + 2].t \in {"str", "num"}) THEN NoParse
    ELSE LET d == (KeyOf(toks[i].s) :> DecodeValue(toks[i + 2])) @@ acc
         IN IF toks[i + 3].t = "}" THEN [ok |-> TRUE, val |-> d, next |-> i + 4]
            ELSE IF toks[i + 3].t = "," THEN ParseMembers(toks, i + 4, d)
            ELSE NoParse

ParseObject(toks, i) ==
    IF i + 1 > Len(toks) \/ toks[i].t # "{" THEN NoParse
    ELSE IF toks[i + 1].t = "}" THEN [ok |-> TRUE, val |-> <<>>, next |-> i + 2]
    ELSE ParseMembers(toks, i + 1, <<>>)

\* object ("," object)* "]" and nothing after it
RECURSIVE ParseItems(_, _, _)
ParseItems(toks, i, acc) ==
    LET o == ParseObject(toks, i)
    IN IF ~o.ok \/ o.next > Len(toks) THEN NoParse
       ELSE IF toks[o.next].t = "]"
            THEN (IF o.next = Len(toks)
                  THEN [ok |-> TRUE, val |-> Append(acc, o.val), next |-> o.next + 1]
                  ELSE NoParse)
       ELSE IF toks[o.next].t = "," THEN ParseItems(toks, o.next + 1, Append(acc, o.val))
       ELSE NoParse

\* json.loads of the decoded text: the value of the document, which is a list
\* of dicts when the text is an array, a dict when it is an object, an int
\* when it is a number and None when it is null; or JSONDecodeError
JsonLoad(toks) ==
    IF toks = <<>> THEN NoParse
    ELSE IF toks[1].t = "["
         THEN (IF Len(toks) < 2 THEN NoParse
               ELSE IF toks[2].t = "]"
                    THEN (IF Len(toks) = 2 THEN [ok |-> TRUE, val |-> <<>>, next |-> 3]
                          ELSE NoParse)
               ELSE ParseItems(toks, 2, <<>>))
    ELSE IF toks[1].t = "{"
         THEN (IF ParseObject(toks, 1).ok /\ ParseObject(toks, 1).next = Len(toks) + 1
               THEN ParseObject(toks, 1) ELSE NoParse)
    ELSE IF Len(toks) = 1 /\ toks[1].t = "num"
         THEN [ok |-> TRUE, val |-> toks[1].n, next |-> 2]
    ELSE IF Len(toks) = 1 /\ toks[1].t = "null"
         THEN [ok |-> TRUE, val |-> "None", next |-> 2]
    ELSE NoParse

\* type(json.loads(text)).__name__ of a text that parses
TypeName(toks) ==
    IF toks[1].t = "[" THEN "list"
    ELSE IF toks[1].t = "{" THEN "dict"
    ELSE IF toks[1].t = "num" THEN "int"
    ELSE "NoneType"

\* f.read() in text mode fails on bytes that are not valid in the encoding
BadBytes == Tok("badbytes")

Decodable(toks) == \A i \in 1..Len(toks) : toks[i] # BadBytes

\* ----------------------------------------------------------- csv.writer
\* the characters that make csv.writer (excel dialect, QUOTE_MINIMAL) quote a field
CsvSpecial == {",", "\"", "\r", "\n"}

NeedsQuote(f) == \E i \in 1..Len(f) : f[i] \in CsvSpecial

RECURSIVE DoubleQuotes(_, _)
DoubleQuotes(f, i) ==
    IF i > Len(f) THEN <<>>
    ELSE (IF f[i] = "\"" THEN <<"\"", "\"">> ELSE <<f[i]>>) \o DoubleQuotes(f, i + 1)

CsvField(f) == IF NeedsQuote(f) THEN <<"\"">> \o DoubleQuotes(f, 1) \o <<"\"">> ELSE f

RECURSIVE JoinFields(_, _)
JoinFields(fields, i) ==
    IF i > Len(fields) THEN <<>>
    ELSE (IF i > 1 THEN <<",">> ELSE <<>>) \o CsvField(fields[i]) \o JoinFields(fields, i + 1)

\* writer.writerow(fields): the fields joined by commas, ended by "\r\n"
WriteRow(fields) == JoinFields(fields, 1) \o <<"\r", "\n">>

\* s.get(k, '') as csv.writer renders it: str() of a number, the text of a string
GetText(d, k) ==
    IF k \notin DOMAIN d THEN <<>>
    ELSE IF k \in IntFields THEN Str(d[k]) ELSE d[k]

HeaderRow == [i \in 1..Len(FieldOrder) |-> Chars(FieldOrder[i])]

SessionRow(d) == [i \in 1..Len(FieldOrder) |-> GetText(d, FieldOrder[i])]

\* for s in reversed(sessions): the order the sessions table shows
ExportRowsNewestFirst(sessions) ==
    <<HeaderRow>> \o [i \in 1..Len(sessions) |-> SessionRow(sessions[Len(sessions) + 1 - i])]

\* the rows export_to_csv hands to the writer, in order
ExportRows(sessions) == <<HeaderRow>> \o [i \in 1..Len(sessions) |-> SessionRow(sessions[i])]

\* the text of the first k rows
RECURSIVE CsvText(_, _)
CsvText(rows, k) == IF k = 0 THEN <<>> ELSE CsvText(rows, k - 1) \o WriteRow(rows[k])

\* ------------------------------------------------------------ the state
VARIABLES
    now,        \* the clock, in ticks since 2024-01-01 00:00:00
    dataFile,   \* self.data_file on disk: [exists, content]
    pc,         \* "idle", or "writing" inside save_data's with-block
    call,       \* the call in progress or last completed: its name, the list
                \* it saves, the session add_session built, whether the data
                \* file existed when it started and (add_session,
                \* export_to_csv) the complete records then on file
    ret,        \* what the last completed call returned, raised, printed and wrote
    prev,       \* after a load_data or clear_all_data call: "save_data" or
                \* "clear_all_data" when the call right before it was that
                \* operation and returned True; otherwise ""
    expected,   \* sessions handed to add_session since the last clear_all_data
    allOk       \* the file was absent at construction, every add_session and
                \* clear_all_data so far returned True without an I/O fault in
                \* it, and save_data was never called directly

vars == <<now, dataFile, pc, call, ret, prev, expected, allOk>>

\* the records that are complete in a data file's content, in order: all of a
\* well-formed log, and of a truncated one those written before the cut
RECURSIVE CompleteFrom(_, _, _)
CompleteFrom(toks, i, acc) ==
    LET o == ParseObject(toks, i)
    IN IF ~o.ok THEN acc
       ELSE IF o.next <= Len(toks) /\ toks[o.next].t = ","
            THEN CompleteFrom(toks, o.next + 1, Append(acc, o.val))
       ELSE Append(acc, o.val)

CompleteRecords(file) ==
    IF file.exists /\ Len(file.content) >= 1 /\ file.content[1].t = "["
    THEN CompleteFrom(file.content, 2, <<>>)
    ELSE <<>>

Absent == [exists |-> FALSE, content |-> <<>>]

File(c) == [exists |-> TRUE, content |-> c]

\* the CSV file a call wrote: whether it opened (created or truncated) one, its
\* path and the characters that reached it
NoCsv == [opened |-> FALSE, path |-> "", content |-> <<>>]

Csv(path, content) == [opened |-> TRUE, path |-> path, content |-> content]

\* csv_file: None (the default path) or a path with a directory part
CsvDests == {"data/study_data.csv", "exports/sessions.csv"}

\* a call's outcome; the CSV file is never read back by the program, so what
\* export_to_csv wrote is kept as part of the outcome of that call
Outcome(result, list, exc, printed, faults, csv) ==
    [result |-> result, list |-> list, exc |-> exc, printed |-> printed,
     faults |-> faults, csv |-> csv]

Returned(result, printed, faults) == Outcome(result, <<>>, "", printed, faults, NoCsv)

PrevTag ==
    IF call.op \in {"save_data", "clear_all_data"} /\ ret.result = "True"
    THEN call.op ELSE ""

\* load_data's try block; readFails: open() or read() raises an OSError
LoadExisting(file, readFails) ==
    IF readFails THEN Outcome("list", <<>>, "", TRUE, {"read"}, NoCsv)
    ELSE IF ~Decodable(file.content)
         THEN Outcome("raise", <<>>, "UnicodeDecodeError", FALSE, {}, NoCsv)
    ELSE LET parsed == JsonLoad(file.content)
         IN IF parsed.ok
            THEN Outcome(TypeName(file.content), parsed.val, "", FALSE, {}, NoCsv)
            ELSE Outcome("list", <<>>, "", TRUE, {}, NoCsv)

\* load_data without the os.path.exists test: open() of an absent file raises
\* FileNotFoundError, which the except clause reports
LoadDataUnguarded(file, readFails) ==
    IF ~file.exists THEN Outcome("list", <<>>, "", TRUE, {}, NoCsv)
    ELSE LoadExisting(file, readFails)

\* DataManager.load_data
LoadData(file, readFails) ==
    IF ~file.exists THEN Outcome("list", <<>>, "", FALSE, {}, NoCsv)
    ELSE LoadExisting(file, readFails)

\* data.insert(0, session) in place of data.append(session)
Prepended(data, session) == <<session>> \o data

\* data.append(session)
Appended(data, session) == Append(data, session)

\* clear_all_data without the os.path.exists test: os.remove of an absent file
\* raises FileNotFoundError, an OSError
ClearUnguarded(file, removeFails) ==
    IF file.exists /\ ~removeFails
    THEN [file |-> Absent, ret |-> Returned("True", FALSE, {})]
    ELSE [file |-> file, ret |-> Returned("False", TRUE, {"remove"})]

\* DataManager.clear_all_data: the file it leaves and what it returns;
\* removeFails: os.remove raises an OSError
Clear(file, removeFails) ==
    IF ~file.exists THEN [file |-> file, ret |-> Returned("True", FALSE, {})]
    ELSE IF removeFails THEN [file |-> file, ret |-> Returned("False", TRUE, {"remove"})]
    ELSE [file |-> Absent, ret |-> Returned("True", FALSE, {})]

\* the faults a call can meet: the file is opened or removed only if it exists
FaultChoices(file) == IF file.exists THEN {FALSE, TRUE} ELSE {FALSE}

\* DataManager.__init__ creates the directory, not the file: the file is
\* whatever is on disk, here absent or bytes that are not text
Init ==
    /\ now = 0
    /\ dataFile \in {Absent, File(<<BadBytes>>)}
    /\ pc = "idle"
    /\ call = [op |-> "none", data |-> <<>>, added |-> <<>>,
               existed |-> dataFile.exists, before |-> <<>>]
    /\ ret = Returned("none", FALSE, {})
    /\ prev = ""
    /\ expected = <<>>
    /\ allOk = ~dataFile.exists

Tick ==
    /\ pc = "idle"
    /\ now < MaxNow
    /\ now' = now + 1
    /\ UNCHANGED <<dataFile, pc, call, ret, prev, expected, allOk>>

\* what is noted of a call when it starts
Started(op, data, added) ==
    [op |-> op, data |-> data, added |-> added, existed |-> dataFile.exists,
     before |-> IF op \in {"add_session", "export_to_csv"}
                THEN CompleteRecords(dataFile) ELSE <<>>]

\* a call that ends in this step with outcome r
Finish(op, data, r) ==
    /\ pc' = "idle"
    /\ call' = Started(op, data, <<>>)
    /\ ret' = r
    /\ prev' = IF op \in {"load_data", "clear_all_data"} THEN PrevTag ELSE ""

LoadDataCall ==
    /\ pc = "idle"
    /\ \E readFails \in FaultChoices(dataFile) :
           Finish("load_data", <<>>, LoadData(dataFile, readFails))
    /\ UNCHANGED <<now, dataFile, expected, allOk>>

\* save_data ends before the file is opened: os.makedirs or open() raises an
\* OSError, which is printed, and save_data returns False
SaveRefused(op, faults) ==
    /\ \E f \in {"mkdir", "open"} :
           Finish(op, <<>>, Returned("False", TRUE, faults \cup {f}))
    /\ UNCHANGED <<now, dataFile>>
    /\ expected' = <<>>
    /\ allOk' = FALSE

\* save_data up to and including open(self.data_file, 'w'), which truncates
SaveOpen(op, data, added, faults) ==
    /\ pc' = "writing"
    /\ call' = Started(op, data, added)
    /\ ret' = Returned("none", FALSE, faults)
    /\ prev' = ""
    /\ dataFile' = File(<<>>)
    /\ allOk' = (allOk /\ op = "add_session" /\ faults = {})
    /\ expected' = IF allOk' THEN expected ELSE <<>>
    /\ UNCHANGED now

\* json.dump writes the next chunk
SaveWrite ==
    /\ pc = "writing"
    /\ Len(dataFile.content) < Len(JsonDump(call.data))
    /\ dataFile' = File(Append(dataFile.content,
                               JsonDump(call.data)[Len(dataFile.content) + 1]))
    /\ UNCHANGED <<now, pc, call, ret, prev, expected, allOk>>

\* the with-block ends: the file is closed and save_data returns True
SaveDone ==
    /\ pc = "writing"
    /\ Len(dataFile.content) = Len(JsonDump(call.data))
    /\ pc' = "idle"
    /\ ret' = Returned("True", FALSE, ret.faults)
    /\ expected' = IF allOk /\ call.op = "add_session"
                   THEN expected \o call.added ELSE <<>>
    /\ allOk' = (allOk /\ call.op = "add_session")
    /\ UNCHANGED <<now, dataFile, call, prev>>

\* a write raises an OSError: save_data prints it and returns False
SaveFail ==
    /\ pc = "writing"
    /\ pc' = "idle"
    /\ ret' = Returned("False", TRUE, ret.faults \cup {"write"})
    /\ expected' = <<>>
    /\ allOk' = FALSE
    /\ UNCHANGED <<now, dataFile, call, prev>>

\* the lists of valid records save_data is called with directly
SaveArgs == SeqsUpTo({Session(Strftime(now), in) : in \in Inputs}, MaxLog)

SaveDataCall ==
    /\ pc = "idle"
    /\ \/ SaveRefused("save_data", {})
       \/ \E data \in SaveArgs : SaveOpen("save_data", data, <<>>, {})

AddSession ==
    /\ pc = "idle"
    /\ \E readFails \in FaultChoices(dataFile) :
         LET loaded == LoadData(dataFile, readFails)
         IN IF loaded.result = "raise"
            THEN /\ Finish("add_session", <<>>, loaded)
                 /\ UNCHANGED <<now, dataFile>>
                 /\ expected' = <<>>
                 /\ allOk' = FALSE
            ELSE /\ Len(loaded.list) < MaxLog
                 /\ \/ SaveRefused("add_session", loaded.faults)
                    \/ \E in \in Inputs :
                          LET session == Session(Strftime(now), in)
                          IN SaveOpen("add_session", Appended(loaded.list, session),
                                      <<session>>, loaded.faults)

ClearAllData ==
    /\ pc = "idle"
    /\ \E removeFails \in FaultChoices(dataFile) :
         LET done == Clear(dataFile, removeFails)
         IN /\ Finish("clear_all_data", <<>>, done.ret)
            /\ dataFile' = done.file
            /\ allOk' = (allOk /\ done.ret.result = "True")
    /\ expected' = <<>>
    /\ UNCHANGED now

\* DataManager.export_to_csv
ExportToCsv ==
    /\ pc = "idle"
    /\ \E readFails \in FaultChoices(dataFile), dest \in CsvDests :
         LET loaded == LoadData(dataFile, readFails)
             rows == ExportRows(loaded.list)
         IN IF loaded.result = "raise" THEN Finish("export_to_csv", <<>>, loaded)
            ELSE IF loaded.list = <<>>
                 THEN Finish("export_to_csv", <<>>,
                             Outcome("None", loaded.list, "", loaded.printed, loaded.faults, NoCsv))
            ELSE \/ \* os.makedirs raises, outside the try block
                    Finish("export_to_csv", <<>>,
                           Outcome("raise", loaded.list, "OSError", FALSE,
                                   loaded.faults \cup {"mkdir"}, NoCsv))
                 \/ \* open() raises
                    Finish("export_to_csv", <<>>,
                           Outcome("None", loaded.list, "", TRUE,
                                   loaded.faults \cup {"open"}, NoCsv))
                 \/ \* a write raises after k rows reached the file
                    \E k \in 0..Len(rows) :
                        Finish("export_to_csv", <<>>,
                               Outcome("None", loaded.list, "", TRUE,
                                       loaded.faults \cup {"write"},
                                       Csv(dest, CsvText(rows, k))))
                 \/ Finish("export_to_csv", <<>>,
                           Outcome("path", loaded.list, "", FALSE, loaded.faults,
                                   Csv(dest, CsvText(rows, Len(rows)))))
    /\ UNCHANGED <<now, dataFile, expected, allOk>>

Next ==
    \/ Tick
    \/ LoadDataCall
    \/ SaveDataCall
    \/ SaveWrite
    \/ SaveDone
    \/ SaveFail
    \/ AddSession
    \/ ClearAllData
    \/ ExportToCsv

Spec == Init /\ [][Next]_vars

\* ----------------------------------------------------- reading the files
IsPrefix(a, b) == Len(a) <= Len(b) /\ \A i \in 1..Len(a) : a[i] = b[i]

\* the log the data file holds, when it holds one
IsLog(file) == file.exists /\ Decodable(file.content) /\ JsonLoad(file.content).ok

LogOf(file) == JsonLoad(file.content).val

\* A CSV reader (excel dialect): a character is inside a quoted field when an
\* odd number of quotes precedes it; an unquoted "\r\n" (or lone "\r", "\n") ends
\* a row, an unquoted comma ends a field; a quoted field loses its enclosing
\* quotes and each doubled quote in it is one quote.
Unquoted(text, i) == Cardinality({j \in 1..(i - 1) : text[j] = "\""}) % 2 = 0

RowEnds(text) == {i \in 1..Len(text) : text[i] \in {"\r", "\n"} /\ Unquoted(text, i)}

FieldEnds(text) == {i \in 1..Len(text) : text[i] = "," /\ Unquoted(text, i)}

Least(S) == CHOOSE x \in S : \A y \in S : x <= y

\* the pieces of text between the positions in ends, from position from on
RECURSIVE Pieces(_, _, _, _)
Pieces(text, from, ends, keepLast) ==
    LET later == {e \in ends : e >= from}
    IN IF later = {}
       THEN (IF keepLast \/ from <= Len(text)
             THEN <<SubSeq(text, from, Len(text))>> ELSE <<>>)
       ELSE LET e == Least(later)
                width == IF text[e] = "\r" /\ e < Len(text) /\ text[e + 1] = "\n"
                         THEN 2 ELSE 1
            IN <<SubSeq(text, from, e - 1)>> \o Pieces(text, e + width, ends, keepLast)

RECURSIVE Undoubled(_, _)
Undoubled(f, i) ==
    IF i > Len(f) THEN <<>>
    ELSE IF f[i] = "\"" /\ i < Len(f) /\ f[i + 1] = "\""
         THEN <<"\"">> \o Undoubled(f, i + 2)
    ELSE <<f[i]>> \o Undoubled(f, i + 1)

FieldValue(raw) ==
    IF Len(raw) >= 2 /\ raw[1] = "\"" /\ raw[Len(raw)] = "\""
    THEN Undoubled(SubSeq(raw, 2, Len(raw) - 1), 1)
    ELSE raw

RowFields(line) ==
    LET raw == Pieces(line, 1, FieldEnds(line), TRUE)
    IN [i \in 1..Len(raw) |-> FieldValue(raw[i])]

CsvRead(text) ==
    LET lines == Pieces(text, 1, RowEnds(text), FALSE)
    IN [i \in 1..Len(lines) |-> RowFields(lines[i])]

DigitValue(c) == CHOOSE d \in 0..9 : Digit(d) = c

IsNumber(f) == f # <<>> /\ \A i \in 1..Len(f) : \E d \in 0..9 : Digit(d) = f[i]

RECURSIVE NumberOf(_)
NumberOf(f) ==
    IF f = <<>> THEN 0
    ELSE 10 * NumberOf(SubSeq(f, 1, Len(f) - 1)) + DigitValue(f[Len(f)])

\* a CSV row holds the five fields of a record, in the documented column order
RowHolds(row, d) ==
    /\ Len(row) = 5
    /\ row[1] = d.timestamp
    /\ row[2] = d.subject
    /\ IsNumber(row[3]) /\ NumberOf(row[3]) = d.duration
    /\ IsNumber(row[4]) /\ NumberOf(row[4]) = d.productivity
    /\ row[5] = d.notes

SaveSideFaults == {"mkdir", "open", "write"}

\* ------------------------------------------------------------ the claims

\* C1: a successful save_data(records) followed at once by a load_data() whose
\* read does not fail returns records: same length, order and field values.
C1_SaveLoadRoundTrip ==
    [][(/\ pc = "idle" /\ call.op = "save_data" /\ ret.result = "True"
        /\ call'.op = "load_data" /\ ret'.faults = {})
       => (ret'.result = "list" /\ ret'.list = call.data)]_vars

C1_Witness ==
    /\ call.op = "load_data" /\ prev = "save_data" /\ ret.faults = {}
    /\ Len(ret.list) >= 2 /\ ret.list[1] # ret.list[2]

\* C2: starting from an absent data file, after add_session and clear_all_data
\* calls that all returned True (none of them hitting an I/O fault), load_data()
\* returns exactly the sessions added since the last clear_all_data, in call
\* order, each with the subject, duration, productivity and notes of its call.
C2_LogIsWhatWasAdded ==
    (pc = "idle" /\ call.op = "load_data" /\ allOk /\ ret.faults = {})
        => (ret.result = "list" /\ ret.list = expected)

C2_Witness ==
    /\ pc = "idle" /\ call.op = "load_data" /\ allOk /\ ret.faults = {}
    /\ Len(ret.list) >= 2 /\ ret.list[1] # ret.list[2]
    /\ now > 0

\* C3: across any add_session call, whatever the data file held before, every
\* record that was on file before the call is still there afterwards, unchanged
\* and at the same position.
C3_AddSessionKeepsRecords ==
    (pc = "idle" /\ call.op = "add_session")
        => IsPrefix(call.before, CompleteRecords(dataFile))

\* C4: when the data file does not exist, load_data() returns the empty list,
\* reports no error and does not create the file.
C4_LoadAbsent ==
    (pc = "idle" /\ call.op = "load_data" /\ ~call.existed)
        => /\ ret.result = "list" /\ ret.list = <<>>
           /\ ret.exc = "" /\ ~ret.printed
           /\ ~dataFile.exists

C4_Witness == pc = "idle" /\ call.op = "load_data" /\ ~call.existed /\ prev = "clear_all_data"

\* C5: when the data file exists but cannot be parsed or read (invalid syntax,
\* undecodable bytes, truncated content, read failure), load_data() returns the
\* empty list and raises nothing.
C5_LoadUnreadable ==
    (pc = "idle" /\ call.op = "load_data" /\ call.existed
       /\ ("read" \in ret.faults \/ ~IsLog(dataFile)))
        => (ret.result = "list" /\ ret.list = <<>> /\ ret.exc = "")

\* C6: save_data replaces the log atomically: every step of a save leaves the
\* data file as it was (the complete previous log) or holding the complete new
\* log, never empty or partly written.
C6_AtomicReplace ==
    [][(pc = "writing" \/ pc' = "writing")
       => (dataFile' = dataFile \/ dataFile' = File(JsonDump(call'.data)))]_vars

\* C7: an I/O failure (directory creation, open, write, remove) inside
\* save_data, add_session, clear_all_data or export_to_csv is returned as False
\* (None for the export) and never raised; add_session returns False exactly
\* when its save step failed.
C7_FaultsAreReturned ==
    (pc = "idle" /\ call.op \in {"save_data", "add_session", "clear_all_data", "export_to_csv"})
        => /\ (ret.faults \cap (SaveSideFaults \cup {"remove"}) # {})
                => /\ ret.exc = ""
                   /\ ret.result = IF call.op = "export_to_csv" THEN "None" ELSE "False"
           /\ (call.op = "add_session" /\ ret.result \in {"True", "False"})
                => (ret.result = "False" <=> ret.faults \cap SaveSideFaults # {})

\* C8: clear_all_data on an absent file returns True and leaves it absent; called
\* again right after a successful call it returns True again; a load_data()
\* right after a successful clear_all_data returns the empty list.
C8_ClearIdempotent ==
    /\ (pc = "idle" /\ call.op = "clear_all_data" /\ (~call.existed \/ prev = "clear_all_data"))
          => (ret.result = "True" /\ ~dataFile.exists)
    /\ (pc = "idle" /\ call.op = "load_data" /\ prev = "clear_all_data")
          => (ret.result = "list" /\ ret.list = <<>>)

C8_Witness == pc = "idle" /\ call.op = "clear_all_data" /\ prev = "clear_all_data"

\* C9: for a log of n >= 1 records a successful export_to_csv writes exactly
\* n + 1 rows: the header timestamp,subject,duration,productivity,notes, then
\* row i holding the five fields of the i-th stored record, in stored order.
C9_CsvRows ==
    (pc = "idle" /\ call.op = "export_to_csv" /\ ret.result = "path")
        => LET log == LogOf(dataFile)
               rows == CsvRead(ret.csv.content)
           IN /\ IsLog(dataFile) /\ Len(log) >= 1
              /\ ret.csv.opened
              /\ Len(rows) = Len(log) + 1
              /\ rows[1] = HeaderRow
              /\ \A i \in 1..Len(log) : RowHolds(rows[i + 1], log[i])

C9_Witness ==
    /\ pc = "idle" /\ call.op = "export_to_csv" /\ ret.result = "path"
    /\ Len(LogOf(dataFile)) >= 2
    /\ LogOf(dataFile)[1].notes = NoNotes
    /\ LogOf(dataFile)[2].notes = QuotedNotes

\* C10: export_to_csv (the log being readable) returns None and writes no file
\* when the log has no records, returns None when creating the directory or
\* writing the file fails, otherwise returns the path written; it never changes
\* the data file.
C10_ExportResult ==
    (pc = "idle" /\ call.op = "export_to_csv" /\ ret.exc # "UnicodeDecodeError")
        => /\ ret.list = <<>> => (ret.result = "None" /\ ~ret.csv.opened)
           /\ (ret.list # <<>> /\ ret.faults \cap SaveSideFaults # {}) => ret.result = "None"
           /\ (ret.list # <<>> /\ ret.faults \cap SaveSideFaults = {})
                => (ret.result = "path" /\ ret.csv.opened /\ ret.csv.path \in CsvDests)
           /\ CompleteRecords(dataFile) = call.before

\* ---------------------------------------------------- dates and times
\* A datetime is its number of seconds after 2024-01-01 00:00:00, a date its
\* number of days after 2024-01-01, a timedelta a number of seconds.
SecondsPerDay == 24 * 60 * 60

\* datetime.now()
Now(t) == t * (SecondsPerDay \div TicksPerDay)

\* datetime.date()
DateOf(dt) == dt \div SecondsPerDay

\* timedelta(days=n)
Timedelta(n) == n * SecondsPerDay

IsLeap(y) == y % 4 = 0 /\ (y % 100 # 0 \/ y % 400 = 0)

DaysInMonth(y, m) ==
    IF m = 2 THEN (IF IsLeap(y) THEN 29 ELSE 28)
    ELSE IF m \in {4, 6, 9, 11} THEN 30 ELSE 31

RECURSIVE DaysBeforeMonth(_, _)
DaysBeforeMonth(y, m) ==
    IF m = 1 THEN 0 ELSE DaysBeforeMonth(y, m - 1) + DaysInMonth(y, m - 1)

DaysBeforeYear(y) ==
    (y - 1) * 365 + ((y - 1) \div 4) - ((y - 1) \div 100) + ((y - 1) \div 400)

\* date(y, m, d).toordinal()
Ordinal(y, m, d) == DaysBeforeYear(y) + DaysBeforeMonth(y, m) + d

\* datetime(y, m, d, H, M, S)
Datetime(y, m, d, H, M, S) ==
    (Ordinal(y, m, d) - Ordinal(2024, 1, 1)) * SecondsPerDay + (H * 60 + M) * 60 + S

\* the positions of the characters of a text that are not digits, in order
RECURSIVE InOrder(_)
InOrder(S) == IF S = {} THEN <<>> ELSE <<Least(S)>> \o InOrder(S \ {Least(S)})

NonDigits(text) ==
    InOrder({i \in 1..Len(text) : ~(\E d \in 0..9 : Digit(d) = text[i])})

NoTime == [ok |-> FALSE, dt |-> 0]

\* datetime.strptime(text, "%Y-%m-%d %H:%M:%S"): four digits of year, then
\* month, day, hour, minute and second of one or two digits each, between
\* the separators "-", "-", " ", ":", ":"; a text of another shape, or a field
\* out of its range, raises ValueError (ok is FALSE).  strptime also takes a
\* run of blanks for the one blank; no text here has one.
Strptime(text) ==
    LET at == NonDigits(text)
    IN IF Len(at) # 5 \/ [i \in 1..5 |-> text[at[i]]] # <<"-", "-", " ", ":", ":">>
       THEN NoTime
       ELSE LET bounds == <<0>> \o at \o <<Len(text) + 1>>
                field == [i \in 1..6 |-> SubSeq(text, bounds[i] + 1, bounds[i + 1] - 1)]
            IN IF Len(field[1]) # 4 \/ \E i \in 2..6 : Len(field[i]) \notin {1, 2}
               THEN NoTime
               ELSE LET n == [i \in 1..6 |-> NumberOf(field[i])]
                    IN IF /\ n[1] >= 1
                          /\ n[2] \in 1..12
                          /\ n[3] \in 1..DaysInMonth(n[1], n[2])
                          /\ n[4] <= 23 /\ n[5] <= 59 /\ n[6] <= 59
                       THEN [ok |-> TRUE, dt |-> Datetime(n[1], n[2], n[3], n[4], n[5], n[6])]
                       ELSE NoTime

\* ------------------------------------------------------- the analytics
\* What a function hands back: a value, None, or an exception it lets escape
Value(v) == [kind |-> "value", exc |-> "", value |-> v]

None == [kind |-> "None", exc |-> "", value |-> <<>>]

Raise(exc) == [kind |-> "raise", exc |-> exc, value |-> <<>>]

\* session[k] raises KeyError for a key the dict does not hold
Lacks(session, keys) == \E k \in keys : k \notin DOMAIN session

\* a float that is the quotient of two ints, as the fraction in lowest terms
RECURSIVE Gcd(_, _)
Gcd(a, b) == IF b = 0 THEN a ELSE Gcd(b, a % b)

Quotient(n, d) == [num |-> n \div Gcd(n, d), den |-> d \div Gcd(n, d)]

Zero == Quotient(0, 1)

FloatGt(a, b) == a.num * b.den > b.num * a.den

IntGt(a, b) == a > b

\* the loop of get_weekly_sessions without the date test: every record whose
\* timestamp parses is kept
RECURSIVE WeeklyLoopAll(_, _, _, _)
WeeklyLoopAll(data, i, cutoff, weekly) ==
    IF i > Len(data) THEN Value(weekly)
    ELSE IF Lacks(data[i], {"timestamp"}) THEN Raise("KeyError")
    ELSE WeeklyLoopAll(data, i + 1, cutoff,
                       IF Strptime(data[i].timestamp).ok
                       THEN Append(weekly, data[i]) ELSE weekly)

\* the loop of get_weekly_sessions over data[i..]
RECURSIVE WeeklyLoop(_, _, _, _)
WeeklyLoop(data, i, cutoff, weekly) ==
    IF i > Len(data) THEN Value(weekly)
    ELSE IF Lacks(data[i], {"timestamp"}) THEN Raise("KeyError")
    ELSE LET session_date == Strptime(data[i].timestamp)
         IN WeeklyLoop(data, i + 1, cutoff,
                       IF session_date.ok /\ session_date.dt >= cutoff
                       THEN Append(weekly, data[i]) ELSE weekly)

\* DataManager.get_weekly_sessions on the loaded data, at clock tick t
GetWeeklySessions(data, t, days) == WeeklyLoop(data, 1, Now(t) - Timedelta(days), <<>>)

\* dict.get that never finds the key
GetDefault(items, k, default) == default

\* a dict as the sequence of its (key, value) items in insertion order
Get(items, k, default) ==
    IF \E i \in 1..Len(items) : items[i][1] = k
    THEN items[CHOOSE i \in 1..Len(items) : items[i][1] = k][2]
    ELSE default

Put(items, k, v) ==
    IF \E i \in 1..Len(items) : items[i][1] = k
    THEN [i \in 1..Len(items) |-> IF items[i][1] = k THEN <<k, v>> ELSE items[i]]
    ELSE Append(items, <<k, v>>)

\* the loop of get_subject_time with subject_time[subject] = duration: each
\* subject keeps the duration of its latest record
RECURSIVE SubjectTimeLoopLatest(_, _, _)
SubjectTimeLoopLatest(sessions, i, subject_time) ==
    IF i > Len(sessions) THEN Value(subject_time)
    ELSE IF Lacks(sessions[i], {"subject", "duration"}) THEN Raise("KeyError")
    ELSE SubjectTimeLoopLatest(sessions, i + 1,
                               Put(subject_time, sessions[i].subject,
                                   sessions[i].duration))

\* the loop of get_subject_time over sessions[i..]
RECURSIVE SubjectTimeLoop(_, _, _)
SubjectTimeLoop(sessions, i, subject_time) ==
    IF i > Len(sessions) THEN Value(subject_time)
    ELSE IF Lacks(sessions[i], {"subject", "duration"}) THEN Raise("KeyError")
    ELSE SubjectTimeLoop(sessions, i + 1,
                         Put(subject_time, sessions[i].subject,
                             Get(subject_time, sessions[i].subject, 0)
                                 + sessions[i].duration))

\* DataManager.get_subject_time
GetSubjectTime(sessions) == SubjectTimeLoop(sessions, 1, <<>>)

\* sum(session[k] for session in sessions[i..])
RECURSIVE Sum(_, _, _)
Sum(sessions, k, i) ==
    IF i > Len(sessions) THEN 0 ELSE sessions[i][k] + Sum(sessions, k, i + 1)

\* DataManager.get_total_time
GetTotalTime(sessions) ==
    IF \E i \in 1..Len(sessions) : Lacks(sessions[i], {"duration"})
    THEN Raise("KeyError")
    ELSE Value(Sum(sessions, "duration", 1))

\* get_average_productivity without its test for no sessions: the division by
\* len(sessions) raises ZeroDivisionError
GetAverageProductivityUnguarded(sessions) ==
    IF sessions = <<>> THEN Raise("ZeroDivisionError")
    ELSE IF \E i \in 1..Len(sessions) : Lacks(sessions[i], {"productivity"})
         THEN Raise("KeyError")
    ELSE Value(Quotient(Sum(sessions, "productivity", 1), Len(sessions)))

\* DataManager.get_average_productivity
GetAverageProductivity(sessions) ==
    IF sessions = <<>> THEN Value(Zero)
    ELSE IF \E i \in 1..Len(sessions) : Lacks(sessions[i], {"productivity"})
         THEN Raise("KeyError")
    ELSE Value(Quotient(Sum(sessions, "productivity", 1), Len(sessions)))

\* max(items, key=lambda x: x[1]) with >= for >: the last of the items with
\* the greatest value
LastMax(items) ==
    items[CHOOSE i \in 1..Len(items) :
              /\ \A j \in 1..Len(items) : ~IntGt(items[j][2], items[i][2])
              /\ \A j \in (i + 1)..Len(items) : IntGt(items[i][2], items[j][2])]

LastMaxFloat(items) ==
    items[CHOOSE i \in 1..Len(items) :
              /\ \A j \in 1..Len(items) : ~FloatGt(items[j][2], items[i][2])
              /\ \A j \in (i + 1)..Len(items) : FloatGt(items[i][2], items[j][2])]

\* max(items, key=lambda x: x[1]) over int values: the first of the items with
\* the greatest value (max replaces its candidate only by a strictly greater one)
Max(items) ==
    items[CHOOSE i \in 1..Len(items) :
              /\ \A j \in 1..Len(items) : ~IntGt(items[j][2], items[i][2])
              /\ \A j \in 1..(i - 1) : IntGt(items[i][2], items[j][2])]

\* the same over float values
MaxFloat(items) ==
    items[CHOOSE i \in 1..Len(items) :
              /\ \A j \in 1..Len(items) : ~FloatGt(items[j][2], items[i][2])
              /\ \A j \in 1..(i - 1) : FloatGt(items[i][2], items[j][2])]

\* get_most_studied_subject taking the last of the subjects with the greatest total
GetMostStudiedSubjectLast(sessions) ==
    LET subject_time == GetSubjectTime(sessions)
    IN IF subject_time.kind = "raise" THEN subject_time
       ELSE IF subject_time.value = <<>> THEN None
       ELSE Value(LastMax(subject_time.value))

\* DataManager.get_most_studied_subject
GetMostStudiedSubject(sessions) ==
    LET subject_time == GetSubjectTime(sessions)
    IN IF subject_time.kind = "raise" THEN subject_time
       ELSE IF subject_time.value = <<>> THEN None
       ELSE Value(Max(subject_time.value))

\* DataManager.get_session_count
GetSessionCount(sessions) == Value(Len(sessions))

\* the first loop of calculate_study_streak over sessions[i..]: the set of
\* the dates of the timestamps that parse
RECURSIVE DatesLoop(_, _, _)
DatesLoop(sessions, i, dates) ==
    IF i > Len(sessions) THEN Value(dates)
    ELSE IF Lacks(sessions[i], {"timestamp"}) THEN Raise("KeyError")
    ELSE LET parsed == Strptime(sessions[i].timestamp)
         IN DatesLoop(sessions, i + 1,
                      IF parsed.ok THEN dates \cup {DateOf(parsed.dt)} ELSE dates)

\* sorted(dates, reverse=True)
SortedReverse(dates) == Reversed(InOrder(dates))

\* the second loop without its test: every further date counts
RECURSIVE StreakLoopUntested(_, _, _)
StreakLoopUntested(sorted_dates, i, streak) ==
    IF i > Len(sorted_dates) - 1 THEN streak
    ELSE StreakLoopUntested(sorted_dates, i + 1, streak + 1)

\* the second loop of calculate_study_streak, from index i on
RECURSIVE StreakLoop(_, _, _)
StreakLoop(sorted_dates, i, streak) ==
    IF i > Len(sorted_dates) - 1 THEN streak
    ELSE IF sorted_dates[i] - sorted_dates[i + 1] = 1
         THEN StreakLoop(sorted_dates, i + 1, streak + 1)
    ELSE streak

\* StatsCalculator.calculate_study_streak, at clock tick t
CalculateStudyStreak(sessions, t) ==
    IF sessions = <<>> THEN Value(0)
    ELSE LET dates == DatesLoop(sessions, 1, {})
             today == DateOf(Now(t))
         IN IF dates.kind = "raise" THEN dates
            ELSE IF dates.value = {} THEN Value(0)
            ELSE LET sorted_dates == SortedReverse(dates.value)
                 IN IF sorted_dates[1] # today /\ sorted_dates[1] # today - 1
                    THEN Value(0)
                    ELSE Value(StreakLoop(sorted_dates, 1, 1))

\* the loop of get_best_productivity_subject over sessions[i..]: the items of
\* subject_productivity and of subject_count
RECURSIVE ProductivityLoop(_, _, _, _)
ProductivityLoop(sessions, i, subject_productivity, subject_count) ==
    IF i > Len(sessions)
    THEN Value([productivity |-> subject_productivity, count |-> subject_count])
    ELSE IF Lacks(sessions[i], {"subject", "productivity"}) THEN Raise("KeyError")
    ELSE LET subject == sessions[i].subject
         IN ProductivityLoop(sessions, i + 1,
                Put(subject_productivity, subject,
                    Get(subject_productivity, subject, 0) + sessions[i].productivity),
                Put(subject_count, subject, Get(subject_count, subject, 0) + 1))

\* get_best_productivity_subject taking the last of the subjects with the
\* greatest average
GetBestProductivitySubjectLast(sessions) ==
    IF sessions = <<>> THEN Value(<< <<>>, Zero >>)
    ELSE LET sums == ProductivityLoop(sessions, 1, <<>>, <<>>)
         IN IF sums.kind = "raise" THEN sums
            ELSE LET subject_avg ==
                         [i \in 1..Len(sums.value.productivity) |->
                             <<sums.value.productivity[i][1],
                               Quotient(sums.value.productivity[i][2],
                                        Get(sums.value.count,
                                            sums.value.productivity[i][1], 0))>>]
                 IN Value(LastMaxFloat(subject_avg))

\* StatsCalculator.get_best_productivity_subject
GetBestProductivitySubject(sessions) ==
    IF sessions = <<>> THEN Value(<< <<>>, Zero >>)
    ELSE LET sums == ProductivityLoop(sessions, 1, <<>>, <<>>)
         IN IF sums.kind = "raise" THEN sums
            ELSE LET subject_avg ==
                         [i \in 1..Len(sums.value.productivity) |->
                             <<sums.value.productivity[i][1],
                               Quotient(sums.value.productivity[i][2],
                                        Get(sums.value.count,
                                            sums.value.productivity[i][1], 0))>>]
                 IN Value(MaxFloat(subject_avg))

\* ------------------------------------------- the analytics on stored logs
MaxSessions == 2     \* longest log the analytics are applied to

\* days-ago offsets of the records of a log and the window they are read with
WindowOffsets == <<0, 3, 6, 8, 10>>
DefaultDays == 7

\* the clock ticks at which the analytics run: late enough for every offset
AnalyticsTicks == {WindowOffsets[Len(WindowOffsets)] * TicksPerDay + k : k \in 0..MaxNow}

LowerMath == <<"m", "a", "t", "h">>
DateOnly == <<"2", "0", "2", "4", "-", "0", "1", "-", "1", "1">>

\* records that differ in their timestamp only: written tomorrow, now, a tick
\* ago, a day ago and two days ago, or carrying a text that is not a timestamp
Stamped(ts) == Session(ts, <<Math, 30, 3, NoNotes>>)

StampedRecords(t) ==
    {Stamped(Strftime(u)) : u \in {t + TicksPerDay, t, t - 1, t - TicksPerDay,
                                   t - 2 * TicksPerDay}}
        \cup {Stamped(DateOnly)}

\* a record without its timestamp field
Unstamped == [k \in FieldNames \ {"timestamp"} |-> Stamped(<<>>)[k]]

UnstampedLogs(t) ==
    {log \in SeqsUpTo({Unstamped, Stamped(Strftime(t)), Stamped(Strftime(t - TicksPerDay))},
                      MaxSessions) :
        \E i \in 1..Len(log) : log[i] = Unstamped}

\* records that differ in subject, duration and productivity
SubjectRecords(t) ==
    {Session(Strftime(t), in) :
        in \in {<<Math, 30, 3, NoNotes>>, <<Math, 30, 5, NoNotes>>,
                <<Physics, 50, 4, NoNotes>>, <<Physics, 30, 3, NoNotes>>,
                <<LowerMath, 30, 5, NoNotes>>}}

\* one record at each of the offsets, newest first
WindowLog(t) ==
    [i \in 1..Len(WindowOffsets) |-> Stamped(Strftime(t - WindowOffsets[i] * TicksPerDay))]

\* a session on each of three days in a row, the last of them today
StreakLog(t) ==
    [i \in 1..3 |-> Stamped(Strftime(t - (3 - i) * TicksPerDay))]

\* sessions today, yesterday, two days ago and four days ago
GapOffsets == <<0, 1, 2, 4>>

GapLog(t) ==
    [i \in 1..Len(GapOffsets) |-> Stamped(Strftime(t - GapOffsets[i] * TicksPerDay))]

\* (Math, 30, 3), (Math, 30, 5), (Physics, 50, 4), and the same with Physics first
SubjectsLog(t) ==
    <<Session(Strftime(t), <<Math, 30, 3, NoNotes>>),
      Session(Strftime(t), <<Math, 30, 5, NoNotes>>),
      Session(Strftime(t), <<Physics, 50, 4, NoNotes>>)>>

PhysicsFirstLog(t) == <<SubjectsLog(t)[3], SubjectsLog(t)[1], SubjectsLog(t)[2]>>

FirstTick == WindowOffsets[Len(WindowOffsets)] * TicksPerDay

StoredLogs(t) ==
    SeqsUpTo(StampedRecords(t), MaxSessions)
        \cup UnstampedLogs(t)
        \cup {WindowLog(t), StreakLog(t), GapLog(t)}
        \cup (IF t = FirstTick
              THEN SeqsUpTo(SubjectRecords(t), MaxSessions)
                       \cup {SubjectsLog(t), PhysicsFirstLog(t)}
              ELSE {})

\* the data file holds a log written earlier, is absent, or is not text
AnalyticsInit ==
    /\ now \in AnalyticsTicks
    /\ dataFile \in {File(JsonDump(log)) : log \in StoredLogs(now)}
                        \cup {Absent, File(<<BadBytes>>)}
    /\ pc = "idle"
    /\ call = [op |-> "none", data |-> <<>>, added |-> <<>>,
               existed |-> dataFile.exists, before |-> <<>>]
    /\ ret = Returned("none", FALSE, {})
    /\ prev = ""
    /\ expected = <<>>
    /\ allOk = TRUE

\* a call of a function f on the sessions argument: None (the stored log is
\* loaded) or a list the caller passes
NoArg == [given |-> FALSE, list |-> <<>>]
Arg(list) == [given |-> TRUE, list |-> list]

\* open() or read() can fail only where the stored log is loaded
ReadFaults(sessions) == IF sessions.given THEN {FALSE} ELSE FaultChoices(dataFile)

\* "if not sessions" in place of "if sessions is None": an empty list passed
\* is replaced by the stored log as well
SessionsInFalsy(file, sessions, readFails) ==
    IF sessions.given /\ sessions.list # <<>>
    THEN Outcome("list", sessions.list, "", FALSE, {}, NoCsv)
    ELSE LoadData(file, readFails)

\* if sessions is None: sessions = self.load_data(), on the data file given
SessionsIn(file, sessions, readFails) ==
    IF sessions.given THEN Outcome("list", sessions.list, "", FALSE, {}, NoCsv)
    ELSE LoadData(file, readFails)

\* the list a function works on, as the outcome of getting it
SessionsOf(sessions, readFails) == SessionsIn(dataFile, sessions, readFails)

\* an analytics call ends in this step; done is what the function computes
\* from the list it works on
Analysed(op, sessions, days, loaded, done) ==
    /\ pc = "idle"
    /\ pc' = "idle"
    /\ call' = [op |-> op, data |-> loaded.list, added |-> <<>>,
                existed |-> dataFile.exists, before |-> <<>>,
                given |-> sessions.given, days |-> days]
    /\ ret' = IF loaded.result = "raise" THEN [loaded EXCEPT !.list = <<>>] @@ [value |-> <<>>]
              ELSE [result |-> done.kind, list |-> <<>>, exc |-> done.exc,
                    printed |-> loaded.printed, faults |-> loaded.faults,
                    csv |-> NoCsv, value |-> done.value]
    /\ prev' = ""
    /\ UNCHANGED <<now, dataFile, expected, allOk>>

\* the sessions argument of the DataManager functions: None or an empty list
SessionsArgs == {NoArg, Arg(<<>>)}

GetWeeklySessionsCall ==
    \E days \in {1, DefaultDays}, readFails \in ReadFaults(NoArg) :
        LET loaded == SessionsOf(NoArg, readFails)
        IN Analysed("get_weekly_sessions", NoArg, days, loaded,
                    GetWeeklySessions(loaded.list, now, days))

GetSubjectTimeCall ==
    \E sessions \in SessionsArgs : \E readFails \in ReadFaults(sessions) :
        LET loaded == SessionsOf(sessions, readFails)
        IN Analysed("get_subject_time", sessions, 0, loaded, GetSubjectTime(loaded.list))

GetTotalTimeCall ==
    \E sessions \in SessionsArgs : \E readFails \in ReadFaults(sessions) :
        LET loaded == SessionsOf(sessions, readFails)
        IN Analysed("get_total_time", sessions, 0, loaded, GetTotalTime(loaded.list))

GetAverageProductivityCall ==
    \E sessions \in SessionsArgs : \E readFails \in ReadFaults(sessions) :
        LET loaded == SessionsOf(sessions, readFails)
        IN Analysed("get_average_productivity", sessions, 0, loaded,
                    GetAverageProductivity(loaded.list))

GetMostStudiedSubjectCall ==
    \E sessions \in SessionsArgs : \E readFails \in ReadFaults(sessions) :
        LET loaded == SessionsOf(sessions, readFails)
        IN Analysed("get_most_studied_subject", sessions, 0, loaded,
                    GetMostStudiedSubject(loaded.list))

GetSessionCountCall ==
    \E sessions \in SessionsArgs : \E readFails \in ReadFaults(sessions) :
        LET loaded == SessionsOf(sessions, readFails)
        IN Analysed("get_session_count", sessions, 0, loaded, GetSessionCount(loaded.list))

\* StatsCalculator's functions take the list from their caller: the one
\* get_all_sessions returned, or an empty one
CalculateStudyStreakCall ==
    \E sessions \in SessionsArgs : \E readFails \in ReadFaults(sessions) :
        LET loaded == SessionsOf(sessions, readFails)
        IN Analysed("calculate_study_streak", sessions, 0, loaded,
                    CalculateStudyStreak(loaded.list, now))

GetBestProductivitySubjectCall ==
    \E sessions \in SessionsArgs : \E readFails \in ReadFaults(sessions) :
        LET loaded == SessionsOf(sessions, readFails)
        IN Analysed("get_best_productivity_subject", sessions, 0, loaded,
                    GetBestProductivitySubject(loaded.list))

AnalyticsNext ==
    \/ GetWeeklySessionsCall
    \/ GetSubjectTimeCall
    \/ GetTotalTimeCall
    \/ GetAverageProductivityCall
    \/ GetMostStudiedSubjectCall
    \/ GetSessionCountCall
    \/ CalculateStudyStreakCall
    \/ GetBestProductivitySubjectCall

AnalyticsSpec == AnalyticsInit /\ [][AnalyticsNext]_vars

\* ------------------------------------------- the claims on the analytics
\* the clock ticks a timestamp of a stored log can render
StampTicks == 0..(FirstTick + MaxNow + TicksPerDay)

\* the record carries the canonical text of a clock tick not before tick from
StampedSince(record, from) ==
    \E u \in StampTicks : Strftime(u) = record.timestamp /\ u >= from

\* the records of log[i..] stamped since tick from, in their order
RECURSIVE Since(_, _, _)
Since(log, i, from) ==
    IF i > Len(log) THEN <<>>
    ELSE (IF StampedSince(log[i], from) THEN <<log[i]>> ELSE <<>>)
             \o Since(log, i + 1, from)

AllStamped(log) == \A i \in 1..Len(log) : "timestamp" \in DOMAIN log[i]

\* a call of op on the stored log ended, no read having failed
AnalysedLog(op) ==
    /\ pc = "idle" /\ call.op = op /\ ~call.given
    /\ ret.faults = {} /\ IsLog(dataFile)

\* C11: get_weekly_sessions(days) returns exactly the stored records whose
\* timestamp is the canonical text of a time not before now - days, in stored
\* order (a timestamp that is not canonical text is left out); of the records
\* at 0, 3, 6, 8 and 10 days ago it returns, for days = 7, the first three.
C11_WeeklySessions ==
    (AnalysedLog("get_weekly_sessions") /\ AllStamped(LogOf(dataFile)))
        => /\ ret.result = "value"
           /\ ret.value = Since(LogOf(dataFile), 1, now - call.days * TicksPerDay)
           /\ (LogOf(dataFile) = WindowLog(now) /\ call.days = DefaultDays)
                => ret.value = SubSeq(WindowLog(now), 1, 3)

C11_Witness ==
    /\ AnalysedLog("get_weekly_sessions")
    /\ LogOf(dataFile) = WindowLog(now)
    /\ call.days = DefaultDays
    /\ ret.value = SubSeq(WindowLog(now), 1, 3)

\* the records of log[i..] that hold a timestamp field, in their order
RECURSIVE WithTimestamp(_, _)
WithTimestamp(log, i) ==
    IF i > Len(log) THEN <<>>
    ELSE (IF "timestamp" \in DOMAIN log[i] THEN <<log[i]>> ELSE <<>>)
             \o WithTimestamp(log, i + 1)

\* C12: when a record of the stored log has no timestamp field,
\* get_weekly_sessions and calculate_study_streak do not raise: they return what
\* they return for the log without that record.
C12_UnstampedSkipped ==
    /\ (AnalysedLog("get_weekly_sessions") /\ ~AllStamped(LogOf(dataFile)))
         => /\ ret.result = "value"
            /\ ret.value = GetWeeklySessions(WithTimestamp(LogOf(dataFile), 1),
                                             now, call.days).value
    /\ (AnalysedLog("calculate_study_streak") /\ ~AllStamped(LogOf(dataFile)))
         => /\ ret.result = "value"
            /\ ret.value = CalculateStudyStreak(WithTimestamp(LogOf(dataFile), 1), now).value

\* an analytics call of op ended with a value
AnalysedValue(op) == pc = "idle" /\ call.op = op /\ ret.result = "value"

\* the sum of the second components of items[i..]
RECURSIVE SumOfValues(_, _)
SumOfValues(items, i) ==
    IF i > Len(items) THEN 0 ELSE items[i][2] + SumOfValues(items, i + 1)

\* the sum of the durations of the records of log[i..] with exactly this subject
RECURSIVE DurationOf(_, _, _)
DurationOf(log, subject, i) ==
    IF i > Len(log) THEN 0
    ELSE (IF log[i].subject = subject THEN log[i].duration ELSE 0)
             + DurationOf(log, subject, i + 1)

\* C13: get_total_time(records) is the sum of the values of
\* get_subject_time(records), and get_subject_time holds one entry for each
\* distinct subject string of the records (compared as they are), its value
\* the sum of the durations of the records with that subject.
C13_TotalIsSumBySubject ==
    /\ AnalysedValue("get_total_time")
         => ret.value = SumOfValues(GetSubjectTime(call.data).value, 1)
    /\ AnalysedValue("get_subject_time")
         => /\ {ret.value[i][1] : i \in 1..Len(ret.value)}
                 = {call.data[j].subject : j \in 1..Len(call.data)}
            /\ \A i, j \in 1..Len(ret.value) :
                   ret.value[i][1] = ret.value[j][1] => i = j
            /\ \A i \in 1..Len(ret.value) :
                   ret.value[i][2] = DurationOf(call.data, ret.value[i][1], 1)

C13_Witness ==
    /\ AnalysedValue("get_total_time")
    /\ call.data = SubjectsLog(now)
    /\ ret.value = 110
    /\ GetSubjectTime(call.data).value = <<<<Math, 60>>, <<Physics, 50>>>>

\* an analytics call of op worked on the empty list
AnalysedEmpty(op) ==
    pc = "idle" /\ call.op = op /\ call.data = <<>> /\ ret.exc # "UnicodeDecodeError"

\* C14: on the empty sequence no aggregate fails: get_session_count gives 0,
\* get_total_time 0, get_average_productivity 0.0, get_most_studied_subject
\* None, get_best_productivity_subject ("", 0.0), calculate_study_streak 0.
C14_EmptyResults ==
    /\ AnalysedEmpty("get_session_count") => (ret.result = "value" /\ ret.value = 0)
    /\ AnalysedEmpty("get_total_time") => (ret.result = "value" /\ ret.value = 0)
    /\ AnalysedEmpty("get_average_productivity")
         => (ret.result = "value" /\ ret.value = Zero)
    /\ AnalysedEmpty("get_most_studied_subject") => ret.result = "None"
    /\ AnalysedEmpty("get_best_productivity_subject")
         => (ret.result = "value" /\ ret.value = << <<>>, Zero >>)
    /\ AnalysedEmpty("calculate_study_streak") => (ret.result = "value" /\ ret.value = 0)

C14_Witness ==
    /\ AnalysedEmpty("get_average_productivity")
    /\ call.given
    /\ ret.result = "value" /\ ret.value = [num |-> 0, den |-> 1]

\* the position of the first record of the log with this subject
FirstOf(log, subject) == Least({i \in 1..Len(log) : log[i].subject = subject})

\* an analytics call of op worked on a list with records, without a KeyError
AnalysedRecords(op) ==
    pc = "idle" /\ call.op = op /\ call.data # <<>> /\ ret.exc = ""

\* C15: on a non-empty sequence get_most_studied_subject returns a subject of
\* the records with the sum of its durations, no subject has a greater sum, and
\* of the subjects with that sum it is the one whose first record comes first.
C15_MostStudied ==
    AnalysedRecords("get_most_studied_subject")
        => /\ ret.result = "value"
           /\ \E i \in 1..Len(call.data) : call.data[i].subject = ret.value[1]
           /\ ret.value[2] = DurationOf(call.data, ret.value[1], 1)
           /\ \A j \in 1..Len(call.data) :
                 LET total == DurationOf(call.data, call.data[j].subject, 1)
                 IN /\ total <= ret.value[2]
                    /\ total = ret.value[2] => FirstOf(call.data, ret.value[1]) <= j

C15_Witness ==
    /\ AnalysedRecords("get_most_studied_subject")
    /\ Len(call.data) = 2
    /\ call.data[1].subject = Physics /\ call.data[1].duration = 30
    /\ call.data[2].subject = Math /\ call.data[2].duration = 30
    /\ ret.value = <<Physics, 30>>

\* C16, as stated: for the records (Math, 30, 3), (Math, 30, 5),
\* (Physics, 50, 4) get_most_studied_subject returns ("Physics", 50).
C16_ExampleGivesPhysics ==
    (AnalysedRecords("get_most_studied_subject") /\ call.data = SubjectsLog(now))
        => (ret.result = "value" /\ ret.value = <<Physics, 50>>)

\* C16, amended: for the records (Math, 30, 3), (Math, 30, 5), (Physics, 50, 4)
\* get_most_studied_subject returns ("Math", 60): the two Math records total
\* 60 minutes, more than the 50 of Physics.
C16_ExampleGivesMath ==
    (AnalysedRecords("get_most_studied_subject") /\ call.data = SubjectsLog(now))
        => (ret.result = "value" /\ ret.value = <<Math, 60>>)

C16_Witness ==
    /\ AnalysedRecords("get_most_studied_subject")
    /\ call.data = SubjectsLog(now)
    /\ ~call.given
    /\ ret.result = "value"

\* the sum of the productivity scores of the records of log[i..] with this subject
RECURSIVE ProductivityOf(_, _, _)
ProductivityOf(log, subject, i) ==
    IF i > Len(log) THEN 0
    ELSE (IF log[i].subject = subject THEN log[i].productivity ELSE 0)
             + ProductivityOf(log, subject, i + 1)

CountOf(log, subject) == Cardinality({i \in 1..Len(log) : log[i].subject = subject})

\* C17: on a non-empty sequence get_best_productivity_subject returns a subject
\* of the records with the mean of its productivity scores, no subject has a
\* greater mean, and of the subjects with that mean it is the first in the
\* input; (Math, 30, 3), (Math, 30, 5), (Physics, 50, 4) gives ("Math", 4.0).
\* Means are compared by cross-multiplication.
C17_BestProductivity ==
    AnalysedRecords("get_best_productivity_subject")
        => /\ ret.result = "value"
           /\ \E i \in 1..Len(call.data) : call.data[i].subject = ret.value[1]
           /\ ret.value[2].den > 0
           /\ ret.value[2].num * CountOf(call.data, ret.value[1])
                 = ProductivityOf(call.data, ret.value[1], 1) * ret.value[2].den
           /\ \A j \in 1..Len(call.data) :
                 LET other == call.data[j].subject
                     mine == ProductivityOf(call.data, ret.value[1], 1) * CountOf(call.data, other)
                     theirs == ProductivityOf(call.data, other, 1) * CountOf(call.data, ret.value[1])
                 IN /\ theirs <= mine
                    /\ theirs = mine => FirstOf(call.data, ret.value[1]) <= j
           /\ call.data = SubjectsLog(now) => ret.value = <<Math, [num |-> 4, den |-> 1]>>

C17_Witness ==
    /\ AnalysedRecords("get_best_productivity_subject")
    /\ call.data = SubjectsLog(now)
    /\ ret.value = <<Math, [num |-> 4, den |-> 1]>>

\* the calendar days (in days after 2024-01-01) on which the log has a session:
\* the days of the clock ticks its timestamps render
SessionDays(log) ==
    {u \div TicksPerDay : u \in {v \in StampTicks :
                                   \E i \in 1..Len(log) : Strftime(v) = log[i].timestamp}}

\* the number of days in a row, the last of them day d, that are all in days
RunEnding(days, d) == Least({k \in 0..Cardinality(days) : (d - k) \notin days})

\* the streak at clock tick t: the run ending today, or else ending yesterday
Streak(log, t) ==
    LET today == t \div TicksPerDay
    IN IF today \in SessionDays(log) THEN RunEnding(SessionDays(log), today)
       ELSE RunEnding(SessionDays(log), today - 1)

\* C18: whatever dates the records carry, dates after today included,
\* calculate_study_streak returns the number of consecutive calendar days,
\* ending today or else yesterday, that each hold a session, and 0 when neither
\* today nor yesterday holds one.
C18_Streak ==
    (pc = "idle" /\ call.op = "calculate_study_streak" /\ AllStamped(call.data)
        /\ ret.exc = "")
        => (ret.result = "value" /\ ret.value = Streak(call.data, now))

\* ---------------------------------------------------------- the Validator
MaxSubjectLength == 100
MaxDuration == 1440
MinProductivity == 1
MaxProductivity == 5

Blank(c) == c \in {" ", "\t", "\n", "\r"}

\* str.lstrip(), str.rstrip() and str.strip()
RECURSIVE LStrip(_)
LStrip(text) ==
    IF text # <<>> /\ Blank(Head(text)) THEN LStrip(Tail(text)) ELSE text

RECURSIVE RStrip(_)
RStrip(text) ==
    IF text # <<>> /\ Blank(text[Len(text)])
    THEN RStrip(SubSeq(text, 1, Len(text) - 1)) ELSE text

Strip(text) == RStrip(LStrip(text))

\* int(text): blanks around an optional sign and decimal digits; anything else
\* raises ValueError (ok is FALSE).  int also takes "_" between digits and
\* other decimal digits than 0-9; no text here has them.
IntOf(text) ==
    LET body == Strip(text)
        signed == body # <<>> /\ body[1] \in {"+", "-"}
        digits == IF signed THEN Tail(body) ELSE body
    IN IF IsNumber(digits)
       THEN [ok |-> TRUE,
             n |-> IF signed /\ body[1] = "-" THEN 0 - NumberOf(digits) ELSE NumberOf(digits)]
       ELSE [ok |-> FALSE, n |-> 0]

Valid == [valid |-> TRUE, error |-> "", value |-> 0]

Invalid(error) == [valid |-> FALSE, error |-> error, value |-> 0]

\* Validator.validate_subject
ValidateSubject(subject) ==
    IF Strip(subject) = <<>> THEN Invalid("Please enter a subject.")
    ELSE IF Len(Strip(subject)) > MaxSubjectLength
         THEN Invalid("Subject name is too long (max 100 characters).")
    ELSE Valid

\* validate_duration without the test for more than 1440 minutes
ValidateDurationUnbounded(duration_str) ==
    IF Strip(duration_str) = <<>> THEN Invalid("Please enter duration.")
    ELSE LET duration == IntOf(duration_str)
         IN IF ~duration.ok THEN Invalid("Please enter a valid number for duration.")
            ELSE IF duration.n <= 0 THEN Invalid("Duration must be positive.")
            ELSE [Valid EXCEPT !.value = duration.n]

\* Validator.validate_duration
ValidateDuration(duration_str) ==
    IF Strip(duration_str) = <<>> THEN Invalid("Please enter duration.")
    ELSE LET duration == IntOf(duration_str)
         IN IF ~duration.ok THEN Invalid("Please enter a valid number for duration.")
            ELSE IF duration.n <= 0 THEN Invalid("Duration must be positive.")
            ELSE IF duration.n > MaxDuration
                 THEN Invalid("Duration seems too long (max 1440 minutes).")
            ELSE [Valid EXCEPT !.value = duration.n]

\* Validator.validate_productivity
ValidateProductivity(score) ==
    IF ~(MinProductivity <= score /\ score <= MaxProductivity)
    THEN Invalid("Productivity must be between 1 and 5.")
    ELSE Valid

\* ------------------------------------------------- the form and its handler
Repeat(c, n) == [i \in 1..n |-> c]

\* subject texts: nothing, blanks, a padded name, and names of 100 (bare and
\* padded) and of 101 characters
SubjectTexts ==
    {<<>>, <<" ", " ">>, <<" ">> \o Math \o <<" ">>,
     Repeat("a", MaxSubjectLength), Repeat("a", MaxSubjectLength + 1),
     <<" ">> \o Repeat("a", MaxSubjectLength) \o <<"\n">>}

\* duration texts
DurationTexts ==
    {<<>>, <<" ">>, <<"a", "b", "c">>, <<"5", ".", "0">>, <<"-", "3">>, <<"0">>,
     <<"1">>, <<" ", "7", " ">>, <<"+", "5">>, Str(MaxDuration), Str(MaxDuration + 1)}

\* what the user types as subject and as duration
TypedSubjects == SubjectTexts \ {<<" ">> \o Math \o <<" ">>, Repeat("a", MaxSubjectLength)}

TypedDurations == DurationTexts \ {<<" ", "7", " ">>, <<"+", "5">>}

\* the scale runs from 1 to 5; its two ends
ScaleValues == {MinProductivity, MaxProductivity}

\* StudyInputForm.get_values
GetValues(subject, duration, productivity, notes) ==
    [subject |-> Strip(subject), duration |-> Strip(duration),
     productivity |-> productivity, notes |-> Strip(notes)]

\* a call's outcome with the message box the handler showed
Boxed(title, message, r) == [box |-> title, message |-> message] @@ r

\* _save_session returns after a validator refused the form
Rejected(title, error) ==
    /\ Finish("_save_session", <<>>, Boxed(title, error, Returned("none", FALSE, {})))
    /\ UNCHANGED <<now, dataFile, expected, allOk>>

\* _save_session from the click to add_session's open(self.data_file, 'w'), or
\* to its end when it ends before that
SaveSessionClick ==
    /\ pc = "idle"
    /\ \E subject \in TypedSubjects, duration \in TypedDurations,
          productivity \in ScaleValues :
         LET values == GetValues(subject, duration, productivity, NoNotes)
             subject_ok == ValidateSubject(values.subject)
             duration_ok == ValidateDuration(values.duration)
             productivity_ok == ValidateProductivity(values.productivity)
         IN IF ~subject_ok.valid THEN Rejected("Missing Information", subject_ok.error)
            ELSE IF ~duration_ok.valid THEN Rejected("Invalid Input", duration_ok.error)
            ELSE IF ~productivity_ok.valid
                 THEN Rejected("Invalid Input", productivity_ok.error)
            ELSE \E readFails \in FaultChoices(dataFile) :
                   LET loaded == LoadData(dataFile, readFails)
                       session == Session(Strftime(now),
                                          <<values.subject, duration_ok.value,
                                            values.productivity, values.notes>>)
                   IN IF loaded.result = "raise"
                      THEN /\ Finish("_save_session", <<>>, Boxed("", "", loaded))
                           /\ UNCHANGED <<now, dataFile>>
                           /\ expected' = <<>>
                           /\ allOk' = FALSE
                      ELSE /\ Len(loaded.list) < MaxLog
                           /\ \/ /\ \E f \in {"mkdir", "open"} :
                                      Finish("_save_session", <<>>,
                                             Boxed("Error", "Failed to save session. Please try again.",
                                                   Returned("False", TRUE, loaded.faults \cup {f})))
                                 /\ UNCHANGED <<now, dataFile>>
                                 /\ expected' = <<>>
                                 /\ allOk' = FALSE
                              \/ SaveOpen("_save_session", Appended(loaded.list, session),
                                          <<session>>, loaded.faults)

\* a write raises an OSError: add_session returns False and the handler shows
\* the error box
SessionNotSaved ==
    /\ pc = "writing"
    /\ call.op = "_save_session"
    /\ pc' = "idle"
    /\ ret' = Boxed("Error", "Failed to save session. Please try again.",
                    Returned("False", TRUE, ret.faults \cup {"write"}))
    /\ expected' = <<>>
    /\ allOk' = FALSE
    /\ UNCHANGED <<now, dataFile, call, prev>>

\* the file is closed and add_session returns True: the handler shows the
\* message, clears the form and, in _update_stats, loads the log twice for
\* the session count and the total time
SessionSaved ==
    /\ pc = "writing"
    /\ call.op = "_save_session"
    /\ Len(dataFile.content) = Len(JsonDump(call.data))
    /\ pc' = "idle"
    /\ \E countFails \in {FALSE, TRUE}, totalFails \in {FALSE, TRUE} :
         LET counted == LoadData(dataFile, countFails)
             totalled == LoadData(dataFile, totalFails)
         IN ret' = [session_count |-> GetSessionCount(counted.list).value,
                    total_time |-> GetTotalTime(totalled.list).value]
                       @@ Boxed("Session Saved!", "",
                                Returned("True", counted.printed \/ totalled.printed,
                                         ret.faults \cup counted.faults \cup totalled.faults))
    /\ expected' = <<>>
    /\ allOk' = FALSE
    /\ UNCHANGED <<now, dataFile, call, prev>>

FormNext ==
    \/ SaveSessionClick
    \/ SaveWrite
    \/ SessionSaved
    \/ SessionNotSaved

\* the application after construction; the clock stands still
FormSpec == Init /\ [][FormNext]_vars

\* ------------------------------------------------------- claims on the form
\* the positions of a text that hold something other than a blank
Inked(text) == {i \in 1..Len(text) : ~Blank(text[i])}

\* the subject is not empty once trimmed and is then at most 100 characters
SubjectHolds(text) ==
    /\ Inked(text) # {}
    /\ \A i, j \in Inked(text) : j - i < MaxSubjectLength

\* the text is a whole number from 1 to 1440, a "+" before it and blanks
\* around it allowed
DurationHolds(text) ==
    \E n \in 1..MaxDuration :
        \E lead \in 0..Len(text), trail \in 0..Len(text) :
            /\ lead + trail <= Len(text)
            /\ \A i \in (1..lead) \cup ((Len(text) - trail + 1)..Len(text)) : Blank(text[i])
            /\ SubSeq(text, lead + 1, Len(text) - trail) \in {Str(n), <<"+">> \o Str(n)}

ProductivityHolds(score) == 1 <= score /\ score <= 5

\* the constraints on a record of the log
RecordHolds(r) ==
    /\ Inked(r.subject) # {}
    /\ Len(r.subject) <= 100
    /\ 1 <= r.duration /\ r.duration <= 1440
    /\ 1 <= r.productivity /\ r.productivity <= 5

\* C19: every record that reaches the data file through _save_session has a
\* subject that is not empty once trimmed and is at most 100 characters, a
\* duration from 1 to 1440 and a productivity from 1 to 5: add_session is called
\* only with a record the three validators accepted, and each validator
\* accepts a value exactly when the value meets its constraint.
C19_SavedRecordsAreValid ==
    /\ \A i \in 1..Len(CompleteRecords(dataFile)) : RecordHolds(CompleteRecords(dataFile)[i])
    /\ (call.op = "_save_session" /\ call.added # <<>>) => RecordHolds(call.added[1])
    /\ call.op = "none" =>
         /\ \A subject \in SubjectTexts :
                ValidateSubject(subject).valid <=> SubjectHolds(subject)
         /\ \A duration \in DurationTexts :
                ValidateDuration(duration).valid <=> DurationHolds(duration)
         /\ \A score \in (MinProductivity - 1)..(MaxProductivity + 1) :
                ValidateProductivity(score).valid <=> ProductivityHolds(score)

\* a saved record at the edge of the constraints, behind an earlier one
C19_Witness ==
    /\ pc = "idle" /\ call.op = "_save_session"
    /\ "box" \in DOMAIN ret /\ ret.box = "Session Saved!"
    /\ Len(CompleteRecords(dataFile)) = 2
    /\ CompleteRecords(dataFile)[2] = call.added[1]
    /\ Len(call.added[1].subject) = 100
    /\ call.added[1].duration = 1440
    /\ call.added[1].productivity = 5
    /\ CompleteRecords(dataFile)[1].duration = 1

\* ------------------------------------------ two applications, one data file
\* Two running applications share the data file.  Here pc, call and ret hold
\* one value per application; expected is the records of the add_session calls
\* that returned True, in the order of their returns; allOk says that no call
\* has loaded the log while another call was between its load and its save.
\* save_data is taken as one step and no I/O fault is met: its own steps and
\* the faults are those of Spec.
Apps == {1, 2}

ConcInit ==
    /\ now = 0
    /\ dataFile = Absent
    /\ pc = [a \in Apps |-> "idle"]
    /\ call = [a \in Apps |-> [op |-> "none", data |-> <<>>, added |-> <<>>]]
    /\ ret = [a \in Apps |-> Returned("none", FALSE, {})]
    /\ prev = ""
    /\ expected = <<>>
    /\ allOk = TRUE

\* add_session's data with the loaded log forgotten
AddSessionDataFresh(file, session) == <<session>>

\* data = self.load_data(); data.append(session)
AddSessionData(file, session) == Appended(LoadData(file, FALSE).list, session)

\* add_session up to its call of save_data
AddSessionLoad(a) ==
    /\ pc[a] = "idle"
    /\ Len(expected) + Cardinality({b \in Apps : pc[b] = "loaded"}) < MaxLog
    /\ \E in \in Inputs :
         LET session == Session(Strftime(now), in)
         IN call' = [call EXCEPT ![a] = [op |-> "add_session",
                                         data |-> AddSessionData(dataFile, session),
                                         added |-> <<session>>]]
    /\ pc' = [pc EXCEPT ![a] = "loaded"]
    /\ ret' = [ret EXCEPT ![a] = Returned("none", FALSE, {})]
    /\ allOk' = (allOk /\ \A b \in Apps \ {a} : pc[b] = "idle")
    /\ UNCHANGED <<now, dataFile, prev, expected>>

\* return self.save_data(data)
AddSessionSave(a) ==
    /\ pc[a] = "loaded"
    /\ dataFile' = File(JsonDump(call[a].data))
    /\ pc' = [pc EXCEPT ![a] = "idle"]
    /\ ret' = [ret EXCEPT ![a] = Returned("True", FALSE, {})]
    /\ expected' = Append(expected, call[a].added[1])
    /\ UNCHANGED <<now, call, prev, allOk>>

\* the clock runs whatever the applications do
ClockTick ==
    /\ now < MaxNow
    /\ now' = now + 1
    /\ UNCHANGED <<dataFile, pc, call, ret, prev, expected, allOk>>

ConcNext ==
    \/ ClockTick
    \/ \E a \in Apps : AddSessionLoad(a)
    \/ \E a \in Apps : AddSessionSave(a)

ConcSpec == ConcInit /\ [][ConcNext]_vars

\* C20: add_session is not atomic.  While the add_session calls of the two
\* applications have run one after the other, the data file holds the record of
\* every call that returned True, in the order of the calls: no record is lost.
\* When two calls interleave their load and save steps, both can return True
\* with only one of their two records in the file.
C20_SequentialCallsLoseNothing ==
    allOk => /\ LoadData(dataFile, FALSE).list = expected
             /\ \A a \in Apps :
                    (pc[a] = "idle" /\ ret[a].result = "True")
                        => \E i \in 1..Len(expected) :
                               LoadData(dataFile, FALSE).list[i] = call[a].added[1]

\* both calls returned True and the file holds the record of one of them only
C20_Witness ==
    /\ \A a \in Apps : pc[a] = "idle" /\ ret[a].result = "True"
    /\ call[1].added # call[2].added
    /\ Len(expected) = 2
    /\ LoadData(dataFile, FALSE).list = call[2].added
    /\ ~allOk

\* ------------------------------------ the read-only operations on two stores
\* The same call is made on two DataManagers, each with a data file of its
\* own.  Here dataFile and ret hold one value per store, and expected is the list
\* the caller holds and passes; a step is one call, made on both stores.
Stores == {1, 2}

\* the data file of a store: absent, not text, or a log written earlier
StoreFiles ==
    {Absent, File(<<BadBytes>>), File(JsonDump(<<Stamped(Strftime(FirstTick))>>)),
     File(JsonDump(SubjectsLog(FirstTick)))}

\* the list the caller holds
CallerLists ==
    {<<>>, PhysicsFirstLog(FirstTick),
     <<Stamped(Strftime(FirstTick - TicksPerDay)), Stamped(Strftime(FirstTick))>>}

StoresInit ==
    /\ now = FirstTick
    /\ dataFile \in [Stores -> StoreFiles]
    /\ pc = "idle"
    /\ call = [op |-> "none", given |-> FALSE, days |-> 0]
    /\ ret = [s \in Stores |-> Returned("none", FALSE, {}) @@ [value |-> <<>>]]
    /\ prev = ""
    /\ expected \in CallerLists
    /\ allOk = TRUE

\* the outcome of a call on one store; done is what the function computes
\* from the list it works on
ResultOf(loaded, done) ==
    IF loaded.result = "raise" THEN [loaded EXCEPT !.list = <<>>] @@ [value |-> <<>>]
    ELSE [result |-> done.kind, list |-> <<>>, exc |-> done.exc,
          printed |-> loaded.printed, faults |-> loaded.faults,
          csv |-> NoCsv, value |-> done.value]

\* a call that reverses the list it was passed, in place, and empties the
\* data file it read
AskedMeddling(op, sessions, days, results) ==
    /\ pc = "idle"
    /\ call' = [op |-> op, given |-> sessions.given, days |-> days]
    /\ ret' = results
    /\ expected' = IF sessions.given THEN Reversed(expected) ELSE expected
    /\ dataFile' = [s \in Stores |-> IF sessions.given \/ ~dataFile[s].exists
                                    THEN dataFile[s] ELSE File(<<>>)]
    /\ UNCHANGED <<now, pc, prev, allOk>>

\* a call ends in this step: none of the operations assigns to the list or to
\* a record, and the data file is opened for reading only
Asked(op, sessions, days, results) ==
    /\ pc = "idle"
    /\ call' = [op |-> op, given |-> sessions.given, days |-> days]
    /\ ret' = results
    /\ UNCHANGED <<now, dataFile, pc, prev, expected, allOk>>

\* the read faults the two stores can meet in a call
StoreFaults(sessions) ==
    {readFails \in [Stores -> {FALSE, TRUE}] :
        \A s \in Stores :
            readFails[s] \in (IF sessions.given THEN {FALSE} ELSE FaultChoices(dataFile[s]))}

\* the sessions argument: None or the caller's list
PassedOrNot == {NoArg, Arg(expected)}

\* each operation, called on both stores with the same arguments;
\* StatsCalculator's functions are always passed a list
LoadDataOnStores ==
    \E sessions \in {NoArg}, days \in {0} :
      \E readFails \in StoreFaults(sessions) :
        Asked("load_data", sessions, days,
              [s \in Stores |->
                  LET loaded == SessionsIn(dataFile[s], sessions, readFails[s])
                  IN ResultOf(loaded, Value(loaded.list))])

GetAllSessionsOnStores ==
    \E sessions \in {NoArg}, days \in {0} :
      \E readFails \in StoreFaults(sessions) :
        Asked("get_all_sessions", sessions, days,
              [s \in Stores |->
                  LET loaded == SessionsIn(dataFile[s], sessions, readFails[s])
                  IN ResultOf(loaded, Value(loaded.list))])

GetWeeklySessionsOnStores ==
    \E sessions \in {NoArg}, days \in {1, DefaultDays} :
      \E readFails \in StoreFaults(sessions) :
        Asked("get_weekly_sessions", sessions, days,
              [s \in Stores |->
                  LET loaded == SessionsIn(dataFile[s], sessions, readFails[s])
                  IN ResultOf(loaded, GetWeeklySessions(loaded.list, now, days))])

GetSubjectTimeOnStores ==
    \E sessions \in PassedOrNot, days \in {0} :
      \E readFails \in StoreFaults(sessions) :
        Asked("get_subject_time", sessions, days,
              [s \in Stores |->
                  LET loaded == SessionsIn(dataFile[s], sessions, readFails[s])
                  IN ResultOf(loaded, GetSubjectTime(loaded.list))])

GetTotalTimeOnStores ==
    \E sessions \in PassedOrNot, days \in {0} :
      \E readFails \in StoreFaults(sessions) :
        Asked("get_total_time", sessions, days,
              [s \in Stores |->
                  LET loaded == SessionsIn(dataFile[s], sessions, readFails[s])
                  IN ResultOf(loaded, GetTotalTime(loaded.list))])

GetAverageProductivityOnStores ==
    \E sessions \in PassedOrNot, days \in {0} :
      \E readFails \in StoreFaults(sessions) :
        Asked("get_average_productivity", sessions, days,
              [s \in Stores |->
                  LET loaded == SessionsIn(dataFile[s], sessions, readFails[s])
                  IN ResultOf(loaded, GetAverageProductivity(loaded.list))])

GetMostStudiedSubjectOnStores ==
    \E sessions \in PassedOrNot, days \in {0} :
      \E readFails \in StoreFaults(sessions) :
        Asked("get_most_studied_subject", sessions, days,
              [s \in Stores |->
                  LET loaded == SessionsIn(dataFile[s], sessions, readFails[s])
                  IN ResultOf(loaded, GetMostStudiedSubject(loaded.list))])

GetSessionCountOnStores ==
    \E sessions \in PassedOrNot, days \in {0} :
      \E readFails \in StoreFaults(sessions) :
        Asked("get_session_count", sessions, days,
              [s \in Stores |->
                  LET loaded == SessionsIn(dataFile[s], sessions, readFails[s])
                  IN ResultOf(loaded, GetSessionCount(loaded.list))])

CalculateStudyStreakOnStores ==
    \E sessions \in {Arg(expected)}, days \in {0} :
      \E readFails \in StoreFaults(sessions) :
        Asked("calculate_study_streak", sessions, days,
              [s \in Stores |->
                  LET loaded == SessionsIn(dataFile[s], sessions, readFails[s])
                  IN ResultOf(loaded, CalculateStudyStreak(loaded.list, now))])

GetBestProductivitySubjectOnStores ==
    \E sessions \in {Arg(expected)}, days \in {0} :
      \E readFails \in StoreFaults(sessions) :
        Asked("get_best_productivity_subject", sessions, days,
              [s \in Stores |->
                  LET loaded == SessionsIn(dataFile[s], sessions, readFails[s])
                  IN ResultOf(loaded, GetBestProductivitySubject(loaded.list))])

StoresNext ==
    \/ LoadDataOnStores
    \/ GetAllSessionsOnStores
    \/ GetWeeklySessionsOnStores
    \/ GetSubjectTimeOnStores
    \/ GetTotalTimeOnStores
    \/ GetAverageProductivityOnStores
    \/ GetMostStudiedSubjectOnStores
    \/ GetSessionCountOnStores
    \/ CalculateStudyStreakOnStores
    \/ GetBestProductivitySubjectOnStores

StoresSpec == StoresInit /\ [][StoresNext]_vars

\* --------------------------------------- claims on the read-only operations
\* C21: load_data, get_all_sessions, get_weekly_sessions, get_subject_time,
\* get_total_time, get_average_productivity, get_most_studied_subject,
\* get_session_count, calculate_study_streak and get_best_productivity_subject
\* leave the data file as it was, and leave the list passed to them and its
\* records as they were.
C21_ReadOnly == [][dataFile' = dataFile /\ expected' = expected]_vars

\* a call that was passed a list of several records, on stores that hold a log
C21_Witness ==
    /\ call.op = "calculate_study_streak" /\ call.given
    /\ Len(expected) = 2
    /\ \A s \in Stores : CompleteRecords(dataFile[s]) # <<>>
    /\ ret[1].result = "value" /\ ret[1].value = 2

\* C22: when a list is passed to get_subject_time, get_total_time,
\* get_average_productivity, get_most_studied_subject or get_session_count, the
\* empty list included, the outcome is the same on every store: the stored log
\* is not read (nothing is printed, no fault is met, nothing is raised).
C22_PassedListAlone ==
    (call.given /\ call.op \in {"get_subject_time", "get_total_time",
                                "get_average_productivity", "get_most_studied_subject",
                                "get_session_count"})
        => /\ ret[1] = ret[2]
           /\ \A s \in Stores : /\ ret[s].result \in {"value", "None"}
                                /\ ~ret[s].printed
                                /\ ret[s].faults = {}

\* the empty list passed to get_session_count on stores that hold logs of
\* different lengths
C22_Witness ==
    /\ call.op = "get_session_count" /\ call.given
    /\ expected = <<>>
    /\ Len(CompleteRecords(dataFile[1])) = 1
    /\ Len(CompleteRecords(dataFile[2])) = 3
    /\ ret[1].value = 0 /\ ret[2].value = 0

\* -------------------------------------------------- claims on the streak
\* the latest of a set of days
Latest(days) == CHOOSE d \in days : \A e \in days : e <= d

\* the stated algorithm on the distinct days of the sessions: 0 when the latest
\* day is neither today nor yesterday, else the length of the run of days in a
\* row that ends at the latest day
StatedStreak(days, today) ==
    IF days = {} THEN 0
    ELSE IF Latest(days) \notin {today, today - 1} THEN 0
    ELSE RunEnding(days, Latest(days))

\* C23: calculate_study_streak returns 0 if the latest of the distinct dates is
\* neither today nor yesterday, and otherwise 1 plus the number of leading
\* pairs of the dates, sorted descending, that are one day apart; dates today,
\* today-1, today-2, today-4 give 3, today-2 alone gives 0, today-1 and today-2
\* give 2.
C23_StreakAsStated ==
    (pc = "idle" /\ call.op = "calculate_study_streak" /\ AllStamped(call.data)
        /\ ret.exc = "")
        => LET days == SessionDays(call.data)
               today == now \div TicksPerDay
           IN /\ ret.result = "value"
              /\ ret.value = StatedStreak(days, today)
              /\ days = {today, today - 1, today - 2, today - 4} => ret.value = 3
              /\ days = {today - 2} => ret.value = 0
              /\ days = {today - 1, today - 2} => ret.value = 2

\* the streak of the log with sessions today, yesterday, two and four days ago
C23_Witness ==
    /\ pc = "idle" /\ call.op = "calculate_study_streak"
    /\ call.data = GapLog(now)
    /\ ret.result = "value" /\ ret.value = 3

\* ------------------------------------------------------ the application
\* StudyTrackerApp (src/main.py) with its form and its statistics panel.  Here
\* prev is what the form holds and expected is what the statistics label
\* shows; a step is a handler run from its start to its return (Tk runs a
\* handler to its end before the next event), with the faults it can meet.
DefaultProductivity == 3

\* StudyInputForm.clear
ClearedForm ==
    [subject |-> <<>>, duration |-> <<>>, productivity |-> DefaultProductivity,
     notes |-> <<>>]

\* what the user fills in: no subject, a duration that is no number, one that
\* is too long, and a form the validators accept
TypedForms ==
    {[ClearedForm EXCEPT !.duration = <<"3", "0">>],
     [ClearedForm EXCEPT !.subject = <<" ">> \o Math, !.duration = <<"a">>],
     [ClearedForm EXCEPT !.subject = Math, !.duration = Str(MaxDuration + 1),
                         !.productivity = MaxProductivity],
     [ClearedForm EXCEPT !.subject = <<" ">> \o Math, !.duration = <<"3", "0", " ">>,
                         !.productivity = MaxProductivity]}

\* TimeFormatter.format_minutes
FormatMinutes(total_minutes) ==
    LET hours == total_minutes \div 60
        minutes == total_minutes % 60
    IN IF hours > 0 THEN Str(hours) \o <<"h", " ">> \o Str(minutes) \o <<"m", "i", "n">>
       ELSE Str(minutes) \o <<" ", "m", "i", "n">>

\* ActionPanel.update_stats: the two texts it puts into the label
StatsText(session_count, total_time) ==
    [sessions |-> Str(session_count), time |-> FormatMinutes(total_time)]

\* _update_stats: get_session_count() and get_total_time() load the log one
\* after the other; done is FALSE when one of them raises
UpdateStats(file, shown, countFails, totalFails) ==
    LET counted == LoadData(file, countFails)
        totalled == LoadData(file, totalFails)
        total == GetTotalTime(totalled.list)
    IN IF counted.result = "raise" \/ totalled.result = "raise" \/ total.kind = "raise"
       THEN [done |-> FALSE, shown |-> shown]
       ELSE [done |-> TRUE,
             shown |-> StatsText(GetSessionCount(counted.list).value, total.value)]

\* the log of an earlier run: a session eight days ago
OldLog(t) == <<WindowLog(t)[4]>>

\* the data file the application finds
AppFiles(t) ==
    {Absent, File(<<BadBytes>>), File(JsonDump(OldLog(t))), File(JsonDump(WindowLog(t)))}

NoWindow == [opened |-> FALSE, title |-> "", stats |-> <<>>]

\* how a handler ended: the message box it showed, what add_session returned
\* if it was called, the window it opened and the exception that left it
Handled(box, add_session, window, raised) ==
    [box |-> box, add_session |-> add_session, window |-> window, raised |-> raised]

\* the window is built, the label reads "Total Sessions: 0 / Total Time: 0 min"
AppInit ==
    /\ now = FirstTick
    /\ dataFile \in AppFiles(now)
    /\ pc = "starting"
    /\ call = [op |-> "none"]
    /\ ret = Handled("", "not called", NoWindow, "")
    /\ prev = ClearedForm
    /\ expected = [sessions |-> <<"0">>, time |-> <<"0", " ", "m", "i", "n">>]
    /\ allOk = TRUE

\* a handler ends in this step
Handle(op, r) ==
    /\ pc = "idle"
    /\ call' = [op |-> op]
    /\ ret' = r
    /\ UNCHANGED <<now, pc, allOk>>

\* StudyTrackerApp.__init__ from self._update_stats() on; when it raises, the
\* application does not start
StartUp ==
    /\ pc = "starting"
    /\ \E countFails \in FaultChoices(dataFile), totalFails \in FaultChoices(dataFile) :
         LET updated == UpdateStats(dataFile, expected, countFails, totalFails)
         IN /\ pc' = IF updated.done THEN "idle" ELSE "failed"
            /\ expected' = updated.shown
            /\ ret' = Handled("", "not called", NoWindow,
                              IF updated.done THEN "" ELSE "UnicodeDecodeError")
    /\ call' = [op |-> "__init__"]
    /\ UNCHANGED <<now, dataFile, prev, allOk>>

\* the user fills in the form
TypeForm ==
    /\ \E form \in TypedForms : prev' = form
    /\ Handle("type", Handled("", "not called", NoWindow, ""))
    /\ UNCHANGED <<dataFile, expected>>

\* _clear_form, the form's Clear button
ClearFormClick ==
    /\ prev' = ClearedForm
    /\ Handle("_clear_form", Handled("", "not called", NoWindow, ""))
    /\ UNCHANGED <<dataFile, expected>>

\* _save_session returns after a validator refused the form, and clears
\* the form first
RefusedClearing(title) ==
    /\ Handle("_save_session", Handled(title, "not called", NoWindow, ""))
    /\ prev' = ClearedForm
    /\ UNCHANGED <<dataFile, expected>>

\* _save_session returns after a validator refused the form
Refused(title) ==
    /\ Handle("_save_session", Handled(title, "not called", NoWindow, ""))
    /\ UNCHANGED <<dataFile, prev, expected>>

\* where a write of these chunks can fail: before the first chunk, half way
\* and before the last chunk
FailPoints(chunks) == {0, Len(chunks) \div 2, Len(chunks) - 1}

\* _save_session, the form's Save button
SaveSessionHandler ==
    LET values == GetValues(prev.subject, prev.duration, prev.productivity, prev.notes)
        subject_ok == ValidateSubject(values.subject)
        duration_ok == ValidateDuration(values.duration)
        productivity_ok == ValidateProductivity(values.productivity)
    IN IF ~subject_ok.valid THEN Refused("Missing Information")
       ELSE IF ~duration_ok.valid THEN Refused("Invalid Input")
       ELSE IF ~productivity_ok.valid THEN Refused("Invalid Input")
       ELSE \E readFails \in FaultChoices(dataFile) :
              LET loaded == LoadData(dataFile, readFails)
                  session == Session(Strftime(now),
                                     <<values.subject, duration_ok.value,
                                       values.productivity, values.notes>>)
                  data == Appended(loaded.list, session)
              IN IF loaded.result = "raise"
                 THEN /\ Handle("_save_session", Handled("", "raise", NoWindow, loaded.exc))
                      /\ UNCHANGED <<dataFile, prev, expected>>
                 ELSE /\ Len(loaded.list) < MaxLog
                      /\ \/ \* os.makedirs or open() raises: save_data returns False
                            /\ Handle("_save_session", Handled("Error", "False", NoWindow, ""))
                            /\ UNCHANGED <<dataFile, prev, expected>>
                         \/ \* a write raises after k chunks
                            /\ \E k \in FailPoints(JsonDump(data)) :
                                   dataFile' = File(SubSeq(JsonDump(data), 1, k))
                            /\ Handle("_save_session", Handled("Error", "False", NoWindow, ""))
                            /\ UNCHANGED <<prev, expected>>
                         \/ \* saved: the message, _clear_form and _update_stats
                            /\ dataFile' = File(JsonDump(data))
                            /\ prev' = ClearedForm
                            /\ \E countFails \in {FALSE, TRUE}, totalFails \in {FALSE, TRUE} :
                                 LET updated == UpdateStats(dataFile', expected,
                                                            countFails, totalFails)
                                 IN /\ expected' = updated.shown
                                    /\ Handle("_save_session",
                                              Handled("Session Saved!", "True", NoWindow, ""))

\* _clear_all_data, after the user's answer to "Are you sure"
ClearAllDataHandler ==
    \/ /\ Handle("_clear_all_data", Handled("Confirm Delete", "not called", NoWindow, ""))
       /\ UNCHANGED <<dataFile, prev, expected>>
    \/ \E removeFails \in FaultChoices(dataFile) :
         LET done == Clear(dataFile, removeFails)
         IN /\ dataFile' = done.file
            /\ UNCHANGED prev
            /\ IF done.ret.result = "True"
               THEN \E countFails \in FaultChoices(done.file),
                       totalFails \in FaultChoices(done.file) :
                      /\ expected' = UpdateStats(done.file, expected,
                                                 countFails, totalFails).shown
                      /\ Handle("_clear_all_data",
                                Handled("Success", "not called", NoWindow, ""))
               ELSE /\ Handle("_clear_all_data", Handled("Error", "not called", NoWindow, ""))
                    /\ UNCHANGED expected

\* _export_csv: get_all_sessions, then export_to_csv, which loads the log
\* again and returns the path, returns None or raises
ExportCsvHandler ==
    /\ \E readFails \in FaultChoices(dataFile), againFails \in FaultChoices(dataFile) :
         LET sessions == LoadData(dataFile, readFails)
             again == LoadData(dataFile, againFails)
         IN IF sessions.result = "raise"
            THEN Handle("_export_csv", Handled("", "not called", NoWindow, sessions.exc))
            ELSE IF sessions.list = <<>>
                 THEN Handle("_export_csv", Handled("No Data", "not called", NoWindow, ""))
            ELSE IF again.list = <<>>
                 THEN Handle("_export_csv",
                             Handled("Export Failed", "not called", NoWindow, ""))
            ELSE \/ Handle("_export_csv",
                           Handled("Export Complete", "not called", NoWindow, ""))
                 \/ Handle("_export_csv",
                           Handled("Export Failed", "not called", NoWindow, ""))
                 \/ Handle("_export_csv", Handled("", "not called", NoWindow, "OSError"))
    /\ UNCHANGED <<dataFile, prev, expected>>

\* _show_weekly_summary without its test for an empty list
WeeklySummaryUntested(weekly_sessions) ==
    [opened |-> TRUE, title |-> "Weekly Summary",
     stats |-> [session_count |-> Len(weekly_sessions),
                total_time |-> GetTotalTime(weekly_sessions),
                avg_productivity |-> GetAverageProductivity(weekly_sessions),
                most_studied |-> GetMostStudiedSubject(weekly_sessions),
                subject_count |-> Len(GetSubjectTime(weekly_sessions).value)]]

\* _show_weekly_summary from "if not weekly_sessions" on: the window it opens
\* and the statistics it passes to it
WeeklySummary(weekly_sessions) ==
    IF weekly_sessions = <<>> THEN NoWindow
    ELSE [opened |-> TRUE, title |-> "Weekly Summary",
          stats |-> [session_count |-> Len(weekly_sessions),
                     total_time |-> GetTotalTime(weekly_sessions),
                     avg_productivity |-> GetAverageProductivity(weekly_sessions),
                     most_studied |-> GetMostStudiedSubject(weekly_sessions),
                     subject_count |-> Len(GetSubjectTime(weekly_sessions).value)]]

\* _show_weekly_summary
ShowWeeklySummaryHandler ==
    /\ \E readFails \in FaultChoices(dataFile) :
         LET loaded == LoadData(dataFile, readFails)
             weekly == GetWeeklySessions(loaded.list, now, DefaultDays)
         IN IF loaded.result = "raise"
            THEN Handle("_show_weekly_summary",
                        Handled("", "not called", NoWindow, loaded.exc))
            ELSE IF weekly.kind = "raise"
                 THEN Handle("_show_weekly_summary",
                             Handled("", "not called", NoWindow, weekly.exc))
            ELSE LET window == WeeklySummary(weekly.value)
                 IN Handle("_show_weekly_summary",
                           [weekly |-> weekly.value]
                               @@ Handled(IF window.opened THEN "" ELSE "Weekly Summary",
                                          "not called", window, ""))
    /\ UNCHANGED <<dataFile, prev, expected>>

AppNext ==
    \/ StartUp
    \/ TypeForm
    \/ ClearFormClick
    \/ SaveSessionHandler
    \/ ClearAllDataHandler
    \/ ExportCsvHandler
    \/ ShowWeeklySummaryHandler

AppSpec == AppInit /\ [][AppNext]_vars

\* ------------------------------------------------ claims on the application
\* a validator refuses what the form holds
FormRefused ==
    \/ ~ValidateSubject(Strip(prev.subject)).valid
    \/ ~ValidateDuration(Strip(prev.duration)).valid
    \/ ~ValidateProductivity(prev.productivity).valid

\* C24: when a validator refuses the form in _save_session, add_session is not
\* called, the data file is left as it was, the form keeps what it held and
\* the statistics label is not updated.
C24_RefusedChangesNothing ==
    [][(pc = "idle" /\ call'.op = "_save_session" /\ FormRefused)
          => /\ ret'.box \in {"Missing Information", "Invalid Input"}
             /\ ret'.add_session = "not called"
             /\ dataFile' = dataFile
             /\ prev' = prev
             /\ expected' = expected]_vars

\* a duration of 1441 minutes was refused while the log holds a session
C24_Witness ==
    /\ pc = "idle" /\ call.op = "_save_session" /\ ret.box = "Invalid Input"
    /\ prev.duration = Str(MaxDuration + 1)
    /\ Len(CompleteRecords(dataFile)) = 1
    /\ expected.sessions = <<"1">>

\* C27: after start-up and after every handler, the statistics label shows
\* get_session_count() and get_total_time() of the data file as it is then.
C27_StatsMatchLog ==
    pc = "idle"
        => expected = StatsText(GetSessionCount(LoadData(dataFile, FALSE).list).value,
                                GetTotalTime(LoadData(dataFile, FALSE).list).value)

\* C28: _show_weekly_summary opens the summary window exactly when the sessions
\* of the last 7 days are not empty, and then passes session_count >= 1, a
\* (subject, minutes) pair as most_studied, subject_count >= 1 and the average
\* productivity of at least one record.
C28_SummaryIsDefined ==
    (pc = "idle" /\ call.op = "_show_weekly_summary" /\ ret.raised = "")
        => /\ ret.window.opened <=> ret.weekly # <<>>
           /\ ret.window.opened
                => LET stats == ret.window.stats
                   IN /\ stats.session_count = Len(ret.weekly)
                      /\ stats.session_count >= 1
                      /\ stats.most_studied.kind = "value"
                      /\ Len(stats.most_studied.value) = 2
                      /\ \E i \in 1..Len(ret.weekly) :
                             ret.weekly[i].subject = stats.most_studied.value[1]
                      /\ stats.most_studied.value[2] >= 1
                      /\ stats.subject_count >= 1
                      /\ stats.avg_productivity.kind = "value"
                      /\ stats.avg_productivity.value
                             = Quotient(Sum(ret.weekly, "productivity", 1), Len(ret.weekly))

\* the summary of the log with sessions 0, 3, 6, 8 and 10 days ago
C28_Witness ==
    /\ pc = "idle" /\ call.op = "_show_weekly_summary"
    /\ ret.window.opened
    /\ ret.window.stats.session_count = 3
    /\ ret.window.stats.most_studied.value = <<Math, 90>>
    /\ ret.window.stats.subject_count = 1



\* ===================================================================
\* the store on a data file of any content
\* ===================================================================
\* ContentSpec runs load_data, add_session and two aggregates on a data file
\* that something else than the program may have written.  The variables
\* stand for:
\*   dataFile  the data file
\*   call      [op]: the operation called last
\*   ret       [returned, value, exc]: the type of the value it returned (or
\*             "raise"), the value, the exception
\*   now       the clock;  pc, prev, expected and allOk do not change

\* the log after one add_session at time t
FirstLog(t) == <<Session(Strftime(t), <<Math, 1, 1, NoNotes>>)>>

Answer(returned, value, exc) == [returned |-> returned, value |-> value, exc |-> exc]

\* the data file at the start: absent; a text that does not parse; the
\* arrays [] and [record]; the objects {} and a record outside any array; a
\* number; null
ContentFiles(t) ==
    {Absent,
     File(SubSeq(JsonDump(FirstLog(t)), 1, 3)),
     File(JsonDump(<<>>)),
     File(JsonDump(FirstLog(t))),
     File(<<Tok("{"), Tok("}")>>),
     File(DumpObject(FirstLog(t)[1])),
     File(<<NumTok(5)>>),
     File(<<Tok("null")>>)}

ContentInit ==
    /\ now = 0
    /\ dataFile \in ContentFiles(0)
    /\ pc = "idle"
    /\ call = [op |-> "none"]
    /\ ret = Answer("NoneType", "None", "")
    /\ prev = ""
    /\ expected = <<>>
    /\ allOk = TRUE

Called(op, answer) ==
    /\ call' = [op |-> op]
    /\ ret' = answer
    /\ UNCHANGED <<now, pc, prev, expected, allOk>>

\* what a caller of load_data sees
Loaded(loaded) ==
    IF loaded.result = "raise" THEN Answer("raise", <<>>, loaded.exc)
    ELSE Answer(loaded.result, loaded.list, "")

\* len(sessions): of a list and of a dict; an int and None have no len()
GetSessionCountOf(answer) ==
    IF answer.returned = "list" THEN Answer("int", Len(answer.value), "")
    ELSE IF answer.returned = "dict" THEN Answer("int", Cardinality(DOMAIN answer.value), "")
    ELSE Answer("raise", <<>>, "TypeError")

\* sum(session['duration'] for session in sessions): iterating a dict gives
\* its keys, and a str has no ['duration']; an int and None do not iterate
GetTotalTimeOf(answer) ==
    IF answer.returned = "list"
    THEN (IF GetTotalTime(answer.value).kind = "raise"
          THEN Answer("raise", <<>>, GetTotalTime(answer.value).exc)
          ELSE Answer("int", GetTotalTime(answer.value).value, ""))
    ELSE IF answer.returned = "dict" /\ DOMAIN answer.value = {} THEN Answer("int", 0, "")
    ELSE Answer("raise", <<>>, "TypeError")

LoadDataOnContent ==
    \E readFails \in FaultChoices(dataFile) :
        /\ Called("load_data", Loaded(LoadData(dataFile, readFails)))
        /\ dataFile' = dataFile

\* add_session: data.append(session) is defined for a list only
AddSessionOnContent ==
    \E readFails \in FaultChoices(dataFile), in \in Inputs :
        LET loaded == Loaded(LoadData(dataFile, readFails))
            data == Appended(loaded.value, Session(Strftime(now), in))
        IN IF loaded.returned = "raise"
           THEN Called("add_session", loaded) /\ dataFile' = dataFile
           ELSE IF loaded.returned # "list"
           THEN /\ Called("add_session", Answer("raise", <<>>, "AttributeError"))
                /\ dataFile' = dataFile
           ELSE /\ Len(loaded.value) < MaxLog
                /\ \/ \* os.makedirs or open() raises: save_data returns False
                      /\ Called("add_session", Answer("bool", FALSE, ""))
                      /\ dataFile' = dataFile
                   \/ \* a write raises after k chunks
                      /\ Called("add_session", Answer("bool", FALSE, ""))
                      /\ \E k \in FailPoints(JsonDump(data)) :
                             dataFile' = File(SubSeq(JsonDump(data), 1, k))
                   \/ /\ Called("add_session", Answer("bool", TRUE, ""))
                      /\ dataFile' = File(JsonDump(data))

GetSessionCountOnContent ==
    \E readFails \in FaultChoices(dataFile) :
        LET loaded == Loaded(LoadData(dataFile, readFails))
        IN /\ Called("get_session_count",
                     IF loaded.returned = "raise" THEN loaded ELSE GetSessionCountOf(loaded))
           /\ dataFile' = dataFile

GetTotalTimeOnContent ==
    \E readFails \in FaultChoices(dataFile) :
        LET loaded == Loaded(LoadData(dataFile, readFails))
        IN /\ Called("get_total_time",
                     IF loaded.returned = "raise" THEN loaded ELSE GetTotalTimeOf(loaded))
           /\ dataFile' = dataFile

ContentNext ==
    \/ ClockTick
    \/ LoadDataOnContent
    \/ AddSessionOnContent
    \/ GetSessionCountOnContent
    \/ GetTotalTimeOnContent

ContentSpec == ContentInit /\ [][ContentNext]_vars

\* ---------------------------------------------------------------
\* claims on the content of the data file
\* ---------------------------------------------------------------

\* C29: whatever the data file holds (nothing, a text that does not parse, an
\* array, or a JSON text that is no array), load_data returns a sequence, and
\* so add_session's append and the aggregates that count or iterate what it
\* returned do not raise.
C29_LoadDataReturnsSequence ==
    /\ call.op = "load_data" => ret.returned = "list"
    /\ call.op \in {"add_session", "get_session_count", "get_total_time"}
          => ret.returned # "raise"

\* ===================================================================
\* StudyTracker, the single-file application (src/study_tracker.py)
\* ===================================================================
\* TrackerSpec follows the interpreter's call stack, because load_data calls
\* update_stats and update_stats calls load_data.  The variables stand for:
\*   dataFile  study_data.json
\*   pc        "idle" between handlers, "running" inside one
\*   call      [op, stack, session, deepest]: the handler, its stack of frames
\*             [fn, at] (the last one is running), the session save_session
\*             built, and the deepest the stack has been in this handler
\*   ret       [state, value, exc, boxes]: what the frame that ended last
\*             handed to its caller ("return" with a value, "raise" with an
\*             exception; "none" while a frame runs) and the error boxes shown
\*   prev      the form: the entries' texts and the productivity scale
\*   expected  the text of the statistics label
\*   allOk     no open() or read() of the handler's own call of load_data has
\*             raised an OSError
\*   now       the clock, which stands still

\* the deepest stack of Python frames the interpreter allows
\* (sys.getrecursionlimit(), 1000 by default) before it raises RecursionError
RecursionLimit == 9

\* Python frames that a library call of load_data needs above its caller:
\* os.path.exists (genericpath.exists), json.load (load, loads, decode,
\* raw_decode) and messagebox.showerror (showerror, _show, show)
ExistsFrames == 1
JsonLoadFrames == 4
BoxFrames == 3

\* the longest log that save_session is followed on
TrackerLog == MaxLog - 1

Frame(fn, at) == [fn |-> fn, at |-> at]

NoSignal(boxes) == [state |-> "none", value |-> <<>>, exc |-> "", boxes |-> boxes]

\* the time_str of update_stats
TimeStr(total_time) ==
    LET hours == total_time \div 60
        minutes == total_time % 60
    IN IF hours > 0 THEN Str(hours) \o <<"h", " ">> \o Str(minutes) \o <<"m", "i", "n">>
       ELSE Str(minutes) \o <<" ", "m", "i", "n">>

\* the two values update_stats puts into the label's text
StatsLabel(data) ==
    [sessions |-> Str(Len(data)), time |-> TimeStr(Sum(data, "duration", 1))]

\* what the entries of the form can hold when "Save Session" is clicked
TrackerForms ==
    {[ClearedForm EXCEPT !.duration = <<"3", "0">>],
     [ClearedForm EXCEPT !.subject = Math],
     [ClearedForm EXCEPT !.subject = Math, !.duration = <<"a">>],
     [ClearedForm EXCEPT !.subject = Math, !.duration = <<"0">>],
     [ClearedForm EXCEPT !.subject = <<" ">> \o Math, !.duration = <<"3", "0", " ">>],
     [ClearedForm EXCEPT !.subject = Math, !.duration = Str(MaxDuration + 1),
                         !.productivity = MaxProductivity]}

\* study_data.json at start-up
TrackerFiles(t) == {Absent, File(<<BadBytes>>), File(JsonDump(OldLog(t)))}

TrackerInit ==
    /\ now = FirstTick
    /\ dataFile \in TrackerFiles(FirstTick)
    /\ pc = "idle"
    /\ call = [op |-> "none", stack |-> <<>>, session |-> <<>>, deepest |-> 0]
    /\ ret = NoSignal(0)
    /\ prev = ClearedForm
    /\ expected = StatsLabel(<<>>)
    /\ allOk = TRUE

Depth == Len(call.stack)

Top == call.stack[Depth]

Running(fn, at) == pc = "running" /\ Depth > 0 /\ Top.fn = fn /\ Top.at = at

\* a call that needs n more frames fits under the recursion limit
Fits(n) == Depth + n <= RecursionLimit

\* the running frame moves on inside its function
Goto(at) ==
    /\ call' = [call EXCEPT !.stack[Depth].at = at]
    /\ pc' = pc

\* the running frame calls fn and waits for it
Enter(fn, at, wait) ==
    /\ call' = [call EXCEPT !.stack = Append([call.stack EXCEPT ![Depth].at = wait],
                                            Frame(fn, at)),
                            !.deepest = IF Depth + 1 > @ THEN Depth + 1 ELSE @]
    /\ pc' = pc

\* the running frame ends; the handler ends with its first frame
Leave ==
    /\ call' = [call EXCEPT !.stack = SubSeq(call.stack, 1, Depth - 1)]
    /\ pc' = IF Depth = 1 THEN "idle" ELSE pc

ReturnValue(value) ==
    /\ Leave
    /\ ret' = [ret EXCEPT !.state = "return", !.value = value, !.exc = ""]

RaiseError(exc) ==
    /\ Leave
    /\ ret' = [ret EXCEPT !.state = "raise", !.value = <<>>, !.exc = exc]

\* except (json.JSONDecodeError, IOError), as DataManager.load_data has it
CaughtDecodeOrIO(exc) == exc \in {"JSONDecodeError", "OSError"}

\* except Exception
Caught(exc) ==
    exc \in {"OSError", "UnicodeDecodeError", "JSONDecodeError", "RecursionError"}

\* an exception inside load_data's try
InTry(exc) ==
    IF Caught(exc) THEN Goto("except") /\ ret' = [ret EXCEPT !.state = "none", !.exc = exc]
    ELSE RaiseError(exc)

\* a handler starts with the call self.load_data()
Begin(op, session) ==
    /\ pc' = "running"
    /\ call' = [op |-> op, session |-> session, deepest |-> 2,
                stack |-> <<Frame(op, "load_data"), Frame("load_data", "exists")>>]
    /\ ret' = NoSignal(0)
    /\ allOk' = TRUE

\* __init__ and the show_... handlers: self.load_data() as their first call
LoadDataClick ==
    /\ pc = "idle"
    /\ \E op \in {"__init__", "show_time_chart"} : Begin(op, <<>>)
    /\ UNCHANGED <<now, dataFile, prev, expected>>

\* the handler has the value of self.load_data(), or its exception
LoadDataTaken ==
    /\ \E op \in {"__init__", "show_time_chart"} : Running(op, "load_data")
    /\ ret.state # "none"
    /\ Leave
    /\ UNCHANGED <<now, dataFile, ret, prev, expected, allOk>>

\* load_data: if os.path.exists(self.data_file), which is outside the try
LoadDataExists ==
    /\ Running("load_data", "exists")
    /\ IF ~Fits(ExistsFrames) THEN RaiseError("RecursionError")
       ELSE IF ~dataFile.exists THEN ReturnValue(<<>>)
       ELSE Goto("json.load") /\ ret' = ret
    /\ UNCHANGED <<now, dataFile, prev, expected, allOk>>

\* load_data: open(self.data_file, 'r') and json.load(f), inside the try;
\* readFails: open() or read() raises an OSError
LoadDataRead ==
    /\ Running("load_data", "json.load")
    /\ \E readFails \in BOOLEAN :
         LET exc == IF readFails THEN "OSError"
                    ELSE IF ~Fits(JsonLoadFrames) THEN "RecursionError"
                    ELSE IF ~Decodable(dataFile.content) THEN "UnicodeDecodeError"
                    ELSE IF ~JsonLoad(dataFile.content).ok THEN "JSONDecodeError"
                    ELSE ""
         IN /\ IF exc = "" THEN Goto("update_stats") /\ ret' = ret ELSE InTry(exc)
            /\ allOk' = (allOk /\ ~(readFails /\ Depth = 2))
    /\ UNCHANGED <<now, dataFile, prev, expected>>

\* load_data: self.update_stats(), inside the try
LoadDataUpdateStats ==
    /\ Running("load_data", "update_stats")
    /\ IF Fits(1) THEN Enter("update_stats", "load_data", "updated") /\ ret' = ret
       ELSE InTry("RecursionError")
    /\ UNCHANGED <<now, dataFile, prev, expected, allOk>>

\* load_data: update_stats is over: return data, or the except clause
LoadDataReturn ==
    /\ Running("load_data", "updated")
    /\ ret.state # "none"
    /\ IF ret.state = "return" THEN ReturnValue(JsonLoad(dataFile.content).val)
       ELSE InTry(ret.exc)
    /\ UNCHANGED <<now, dataFile, prev, expected, allOk>>

\* load_data: except Exception: messagebox.showerror(...); return []
LoadDataExcept ==
    /\ Running("load_data", "except")
    /\ IF Fits(BoxFrames)
       THEN /\ Leave
            /\ ret' = [state |-> "return", value |-> <<>>, exc |-> "",
                       boxes |-> ret.boxes + 1]
       ELSE RaiseError("RecursionError")
    /\ UNCHANGED <<now, dataFile, prev, expected, allOk>>

\* update_stats: data = self.load_data()
UpdateStatsLoad ==
    /\ Running("update_stats", "load_data")
    /\ IF Fits(1) THEN Enter("load_data", "exists", "loaded") /\ ret' = NoSignal(ret.boxes)
       ELSE RaiseError("RecursionError")
    /\ UNCHANGED <<now, dataFile, prev, expected, allOk>>

\* update_stats: load_data is over: the label shows its data, or its exception
\* goes on to the caller
UpdateStatsShow ==
    /\ Running("update_stats", "loaded")
    /\ ret.state # "none"
    /\ IF ret.state = "return"
       THEN /\ expected' = StatsLabel(ret.value)
            /\ ReturnValue(<<>>)
       ELSE /\ expected' = expected
            /\ RaiseError(ret.exc)
    /\ UNCHANGED <<now, dataFile, prev, allOk>>

\* save_session ends at one of its three tests of the entries
Warned ==
    /\ pc' = "idle"
    /\ call' = [op |-> "save_session", stack |-> <<>>, session |-> <<>>, deepest |-> 1]
    /\ ret' = [state |-> "return", value |-> <<>>, exc |-> "", boxes |-> 1]
    /\ prev' = prev
    /\ allOk' = TRUE

\* a click on "Save Session": save_session up to data = self.load_data()
SaveSessionStart ==
    /\ pc = "idle"
    /\ Len(CompleteRecords(dataFile)) < TrackerLog
    /\ \E form \in TrackerForms :
         LET subject == Strip(form.subject)
             duration_str == Strip(form.duration)
             duration == IntOf(duration_str)
         IN IF subject = <<>> THEN Warned
            ELSE IF duration_str = <<>> THEN Warned
            ELSE IF ~duration.ok \/ duration.n <= 0 THEN Warned
            ELSE /\ Begin("save_session",
                          <<Session(Strftime(now),
                                    <<subject, duration.n, form.productivity, NoNotes>>)>>)
                 /\ prev' = form
    /\ UNCHANGED <<now, dataFile, expected>>

\* save_session: data.append(session); self.save_data(data); showinfo;
\* clear_form(); then the call self.update_stats().  openFails: open(..., 'w')
\* raises; k: the chunks written when a write raises
SaveSessionAppend ==
    /\ Running("save_session", "load_data")
    /\ ret.state # "none"
    /\ IF ret.state = "raise"
       THEN /\ RaiseError(ret.exc)
            /\ UNCHANGED <<dataFile, prev>>
       ELSE LET data == Appended(ret.value, call.session[1])
                chunks == JsonDump(data)
            IN /\ \/ dataFile' = File(chunks) /\ ret' = NoSignal(ret.boxes)
                  \/ dataFile' = dataFile /\ ret' = NoSignal(ret.boxes + 1)
                  \/ \E k \in FailPoints(chunks) :
                       /\ dataFile' = File(SubSeq(chunks, 1, k))
                       /\ ret' = NoSignal(ret.boxes + 1)
               /\ prev' = ClearedForm
               /\ Enter("update_stats", "load_data", "update_stats")
    /\ UNCHANGED <<now, expected, allOk>>

\* save_session: update_stats is over, and so is the handler
SaveSessionEnd ==
    /\ Running("save_session", "update_stats")
    /\ ret.state # "none"
    /\ Leave
    /\ UNCHANGED <<now, dataFile, ret, prev, expected, allOk>>

\* the steps the interpreter takes inside a handler
TrackerRun ==
    \/ LoadDataExists
    \/ LoadDataRead
    \/ LoadDataUpdateStats
    \/ LoadDataReturn
    \/ LoadDataExcept
    \/ UpdateStatsLoad
    \/ UpdateStatsShow
    \/ LoadDataTaken
    \/ SaveSessionAppend
    \/ SaveSessionEnd

TrackerNext ==
    \/ LoadDataClick
    \/ SaveSessionStart
    \/ LoadDataExists
    \/ LoadDataRead
    \/ LoadDataUpdateStats
    \/ LoadDataReturn
    \/ LoadDataExcept
    \/ UpdateStatsLoad
    \/ UpdateStatsShow
    \/ LoadDataTaken
    \/ SaveSessionAppend
    \/ SaveSessionEnd

TrackerSpec == TrackerInit /\ [][TrackerNext]_vars

\* the interpreter does not stop inside a handler
TrackerFairSpec == TrackerSpec /\ WF_vars(TrackerRun)


\* ---------------------------------------------------------------
\* claims on StudyTracker
\* ---------------------------------------------------------------

\* C25: every record that StudyTracker.save_session writes to the log has a
\* duration from 1 to 1440, a productivity from 1 to 5 and a subject that is
\* not empty once trimmed and is at most 100 characters.
C25_TrackerRecordsHold ==
    \A i \in 1..Len(CompleteRecords(dataFile)) : RecordHolds(CompleteRecords(dataFile)[i])

\* a handler whose first call is self.load_data() has ended, the data file
\* parses, and the handler's own open() and read() met no I/O error
LoadDataEnded ==
    /\ pc = "idle" /\ call.op \in {"__init__", "show_time_chart"}
    /\ allOk
    /\ dataFile.exists /\ Decodable(dataFile.content) /\ JsonLoad(dataFile.content).ok

TimeOf(r) == Strptime(r.timestamp).dt

\* C30: with a clock that never goes backward, whatever add_session,
\* save_data and clear_all_data calls were made, the timestamps of the records
\* in the data file never decrease in stored order (the order export_to_csv
\* writes), and so never increase in the reversed order in which
\* SessionsTable lists them.
C30_StoredOrderIsOldestFirst ==
    LET stored == CompleteRecords(dataFile)
        shown == Reversed(stored)
    IN /\ \A i \in 1..Len(stored) : Strptime(stored[i].timestamp).ok
       /\ \A i, j \in 1..Len(stored) :
              i < j => /\ TimeOf(stored[i]) <= TimeOf(stored[j])
                       /\ TimeOf(shown[i]) >= TimeOf(shown[j])

\* add_session has put a second record behind one of an earlier time
C30_Witness ==
    /\ pc = "idle" /\ call.op = "add_session" /\ ret.result = "True"
    /\ Len(CompleteRecords(dataFile)) = 2
    /\ TimeOf(CompleteRecords(dataFile)[1]) < TimeOf(CompleteRecords(dataFile)[2])

====
